---- MODULE Spec2Model ----
(***************************************************************************)
(* Branded identifiers of the atlas fork: the Provider wrapper             *)
(* (internal/branded), the fiberfx generator / codec / parser it wraps,    *)
(* and the schema-side helpers of sql/branded.                             *)
(*                                                                         *)
(* Strings are sequences of one-character strings.  Numeric payloads are   *)
(* natural numbers held as little-endian limb sequences, so that every     *)
(* 11-character base-62 string has a numeric value.                        *)
(***************************************************************************)
EXTENDS Integers, Sequences, FiniteSets, TLC

(***************************************************************************)
(* Bounds of the model.                                                    *)
(***************************************************************************)
\* clock readings range over 1..MaxTick
MaxTick == 2
\* highest value of the per-millisecond sequence counter
MaxSeq == 1
\* identifiers issued in one behaviour (all generators together)
MaxCalls == 3
\* concurrent callers
NumProcs == 2
\* tables of a schema handed to the Validator
MaxTables == 2
\* columns on either side of a foreign key
MaxFkColumns == 2

(***************************************************************************)
(* Program constants.                                                      *)
(***************************************************************************)
BrandedLen == 14
NamespaceLen == 3
PayloadLen == 11
\* worker ids are 0..WorkerRange-1
WorkerRange == 1024

(***************************************************************************)
(* Characters and strings.                                                 *)
(***************************************************************************)
Digits == <<"0", "1", "2", "3", "4", "5", "6", "7", "8", "9">>

Upper == <<"A", "B", "C", "D", "E", "F", "G", "H", "I", "J", "K", "L", "M",
           "N", "O", "P", "Q", "R", "S", "T", "U", "V", "W", "X", "Y", "Z">>

Lower == <<"a", "b", "c", "d", "e", "f", "g", "h", "i", "j", "k", "l", "m",
           "n", "o", "p", "q", "r", "s", "t", "u", "v", "w", "x", "y", "z">>

\* the codec's alphabet, in the order of the format [0-9A-Za-z]
Alphabet == Digits \o Upper \o Lower

Base == Len(Alphabet)

Range(s) == {s[i] : i \in DOMAIN s}

IsUpper(c) == c \in Range(Upper)

IsAlnum(c) == c \in Range(Alphabet)

DigitVal(c) == (CHOOSE i \in DOMAIN Alphabet : Alphabet[i] = c) - 1

\* strings.ToUpper on ASCII
UpperOf(c) ==
    IF c \in Range(Lower)
    THEN Upper[CHOOSE i \in DOMAIN Lower : Lower[i] = c]
    ELSE c

ToUpper(s) == [i \in DOMAIN s |-> UpperOf(s[i])]

(***************************************************************************)
(* Natural numbers as little-endian limb sequences; <<>> is zero and the   *)
(* most significant limb is never 0.                                       *)
(***************************************************************************)
LimbBase == 100 * 100

RECURSIVE BigFromInt(_)
BigFromInt(k) ==
    IF k = 0 THEN <<>> ELSE <<k % LimbBase>> \o BigFromInt(k \div LimbBase)

RECURSIVE BigStrip(_)
BigStrip(n) ==
    IF n = <<>> THEN <<>>
    ELSE IF n[Len(n)] = 0 THEN BigStrip(SubSeq(n, 1, Len(n) - 1))
    ELSE n

\* n * m + a, for small m and a
RECURSIVE BigMulAddFrom(_, _, _, _)
BigMulAddFrom(n, i, m, carry) ==
    IF i > Len(n)
    THEN BigFromInt(carry)
    ELSE LET v == n[i] * m + carry
         IN  <<v % LimbBase>> \o BigMulAddFrom(n, i + 1, m, v \div LimbBase)

BigMulAdd(n, m, a) == BigStrip(BigMulAddFrom(n, 1, m, a))

\* quotient and remainder of n by a small m, most significant limb first
RECURSIVE BigDivFrom(_, _, _, _)
BigDivFrom(n, i, m, rem) ==
    IF i = 0
    THEN [q |-> <<>>, r |-> rem]
    ELSE LET cur  == rem * LimbBase + n[i]
             rest == BigDivFrom(n, i - 1, m, cur % m)
         IN  [q |-> rest.q \o <<cur \div m>>, r |-> rest.r]

BigDivMod(n, m) ==
    LET d == BigDivFrom(n, Len(n), m, 0)
    IN  [q |-> BigStrip(d.q), r |-> d.r]

RECURSIVE BigLessFrom(_, _, _)
BigLessFrom(a, b, i) ==
    IF i = 0 THEN FALSE
    ELSE IF a[i] # b[i] THEN a[i] < b[i]
    ELSE BigLessFrom(a, b, i - 1)

BigLess(a, b) ==
    IF Len(a) # Len(b) THEN Len(a) < Len(b) ELSE BigLessFrom(a, b, Len(a))

(***************************************************************************)
(* Codec: fixed-width base-62 rendering of a payload and its inverse.      *)
(***************************************************************************)
RECURSIVE EncodeDigits(_)
EncodeDigits(v) ==
    IF v = <<>> THEN <<>>
    ELSE LET d == BigDivMod(v, Base)
         IN  EncodeDigits(d.q) \o <<Alphabet[d.r + 1]>>

\* variant: the rendering is not padded to the fixed width
PadLeftNone(s, width) == s

RECURSIVE PadLeft(_, _)
PadLeft(s, width) ==
    IF Len(s) >= width THEN s ELSE PadLeft(<<Alphabet[1]>> \o s, width)

Encode(v) == PadLeft(EncodeDigits(v), PayloadLen)

RECURSIVE DecodeFrom(_, _, _)
DecodeFrom(s, i, acc) ==
    IF i > Len(s) THEN acc
    ELSE DecodeFrom(s, i + 1, BigMulAdd(acc, Base, DigitVal(s[i])))

Decode(s) == DecodeFrom(s, 1, <<>>)

(***************************************************************************)
(* Identifiers and errors.                                                 *)
(***************************************************************************)
ZeroID == [ns |-> <<>>, payload |-> <<>>]

IsZero(id) == id = ZeroID

Namespace(id) == id.ns

String(id) == id.ns \o Encode(id.payload)

NoErr == [kind |-> "nil", expected |-> <<>>, actual |-> <<>>]

ErrLength == [kind |-> "length", expected |-> <<>>, actual |-> <<>>]

ErrFormat == [kind |-> "format", expected |-> <<>>, actual |-> <<>>]

ErrNamespace(expected, actual) ==
    [kind |-> "namespace", expected |-> expected, actual |-> actual]

(***************************************************************************)
(* Parser.                                                                 *)
(***************************************************************************)
\* variant: the namespace characters are checked like payload characters
MatchesFormatLoose(raw) == \A i \in 1..BrandedLen : IsAlnum(raw[i])

\* ^[A-Z]{3}[0-9A-Za-z]{11}$ on a string of BrandedLen characters
MatchesFormat(raw) ==
    /\ \A i \in 1..NamespaceLen : IsUpper(raw[i])
    /\ \A i \in (NamespaceLen + 1)..BrandedLen : IsAlnum(raw[i])

FxParse(raw) ==
    IF Len(raw) # BrandedLen
    THEN [id |-> ZeroID, err |-> ErrLength]
    ELSE IF ~MatchesFormat(raw)
    THEN [id |-> ZeroID, err |-> ErrFormat]
    ELSE [id  |-> [ns      |-> SubSeq(raw, 1, NamespaceLen),
                   payload |-> Decode(SubSeq(raw, NamespaceLen + 1, BrandedLen))],
          err |-> NoErr]

FxParseWithNamespace(raw, expected) ==
    LET r == FxParse(raw)
    IN  IF r.err # NoErr THEN r
        ELSE IF r.id.ns # expected
        THEN [id |-> ZeroID, err |-> ErrNamespace(expected, r.id.ns)]
        ELSE r

FxValid(raw) == FxParse(raw).err = NoErr

(***************************************************************************)
(* Namespaces used as inputs.                                              *)
(***************************************************************************)
NS_TASK == <<"T", "S", "K">>

NS_EPIC == <<"E", "P", "C">>

\* well-formed but not registered
NS_UNKNOWN == <<"X", "X", "X">>

NS_FEATURE == <<"F", "T", "R">>

NS_USER == <<"U", "S", "R">>

\* the Namespace Registry
Registry == {NS_TASK, NS_EPIC, NS_FEATURE, NS_USER}

IsValidNamespace(ns) == ns \in Registry

GenNamespaces == {NS_TASK, NS_UNKNOWN}

WorkerIds == {0, 1, WorkerRange - 1}

\* the worker ids two providers are constructed with: equal, adjacent, and
\* the ends of the range
WorkerPairs == {<<0, 0>>, <<0, 1>>, <<0, WorkerRange - 1>>, <<1, WorkerRange - 1>>}

Procs == 1..NumProcs

(***************************************************************************)
(* State.                                                                  *)
(*   now        the system clock, in milliseconds                           *)
(*   gens       the heap of Generators: worker, lastTick, sequence and mu  *)
(*              (0 when free, else the caller holding the lock); gens[1]   *)
(*              is the process-wide default Generator                      *)
(*   provs      the Providers constructed so far, each a reference into    *)
(*              gens                                                       *)
(*   asked      history: the worker id each Provider was constructed with  *)
(*   pc, call   each caller's position inside Generate and its locals      *)
(*              (waited: a clock reading has sent it back to read again)   *)
(*   issued     history: per Generator, the identifiers it returned, in    *)
(*              issue order                                                *)
(*   sawRegress history: the Generators whose lastTick the clock has gone  *)
(*              below at some time                                         *)
(*   inRaw, inExpected, outOp, outRes                                      *)
(*              the input and the result of the last parser call           *)
(*   validator  the Validator: strict and checkNaming                      *)
(*   inArg      the argument of a call on the schema side (a column with   *)
(*              its table name, a foreign key, a schema, a comment, ...),  *)
(*              tagged with the operation it is an argument of             *)
(*   outErrs    the list of ValidationErrors the last Validator call       *)
(*              returned                                                   *)
(*   cgen       the BrandedConstraintGenerator's config: enabled and       *)
(*              constraintFmt                                              *)
(*   outVal     the value the last call on the schema side returned, when  *)
(*              it is not a list of ValidationErrors                       *)
(*   inspected  the schema.Schema under inspection: its tables with their  *)
(*              columns, which the conversion changes in place             *)
(*   history    history: the calls made on the inspected schema, each with *)
(*              the schema as it was before the call                       *)
(***************************************************************************)
VARIABLES now, gens, provs, asked, pc, call, issued, sawRegress,
          inRaw, inExpected, outOp, outRes,
          validator, inArg, outErrs, cgen, outVal,
          inspected, history

genVars == <<now, gens, provs, asked, pc, call, issued, sawRegress>>

parseVars == <<inRaw, inExpected, outOp, outRes>>

inspectVars == <<inspected, history>>

schemaVars == <<validator, inArg, outErrs, cgen, outVal, inspected, history>>

vars == <<now, gens, provs, asked, pc, call, issued, sawRegress,
          inRaw, inExpected, outOp, outRes,
          validator, inArg, outErrs, cgen, outVal,
          inspected, history>>

(***************************************************************************)
(* Generator.                                                              *)
(***************************************************************************)
NewGenerator(workerID) ==
    [worker |-> workerID, lastTick |-> 0, sequence |-> 0, mu |-> 0]

\* the default Generator is gens[1]
DefaultGenerator == 1

\* time in the high-order part, worker id in the middle, sequence lowest
ComposePayload(tick, worker, sequence) ==
    BigFromInt((tick * WorkerRange + worker) * (MaxSeq + 1) + sequence)

\* variant: a clock reading below lastTick is taken as a new millisecond
CanProceedIgnoringRegress(g, t) ==
    \/ t # g.lastTick
    \/ g.sequence < MaxSeq

\* variant: an exhausted sequence does not hold New back
CanProceedWrap(g, t) == t >= g.lastTick

\* the clock reading lets New proceed: the clock is past lastTick, or equal
\* to it with sequence numbers left; otherwise New keeps re-reading the clock
CanProceed(g, t) ==
    \/ t > g.lastTick
    \/ t = g.lastTick /\ g.sequence < MaxSeq

\* variant: the sequence is not advanced within a millisecond
NextSlotNoIncrement(last, sequence, t) == [tick |-> t, sequence |-> 0]

\* the (tick, sequence) pair New allots from what it read
NextSlot(last, sequence, t) ==
    IF t = last
    THEN [tick |-> t, sequence |-> sequence + 1]
    ELSE [tick |-> t, sequence |-> 0]

NoCall ==
    [prov |-> 0, ns |-> <<>>, t |-> 0, last |-> 0, sequence |-> 0,
     waited |-> FALSE]

(***************************************************************************)
(* Provider.                                                               *)
(***************************************************************************)
\* A constructor takes the heap of Generators and returns the heap after it
\* together with the new Provider, whose gen refers into the heap.
\* variant: the worker id is not passed on to the Generator
NewProviderWorkerZero(heap, workerID) ==
    [heap |-> Append(heap, NewGenerator(0)),
     prov |-> [gen |-> Len(heap) + 1]]

NewProvider(heap, workerID) ==
    [heap |-> Append(heap, NewGenerator(workerID)),
     prov |-> [gen |-> Len(heap) + 1]]

\* variant: every call makes a Generator of its own with worker id 0
DefaultProviderFresh(heap) ==
    [heap |-> Append(heap, NewGenerator(0)),
     prov |-> [gen |-> Len(heap) + 1]]

DefaultProvider(heap) == [heap |-> heap, prov |-> [gen |-> DefaultGenerator]]

\* the Generator a Generate call on provider pr works on
GeneratorOf(pr) == provs[pr].gen

\* variant: the value is upper-cased before it is parsed
ProviderParseUpper(value) == FxParse(ToUpper(value))

ProviderParse(value) == FxParse(value)

\* variant: the expected namespace is not passed on
ProviderParseAnyNamespace(value, expected) == FxParse(value)

ProviderParseWithNamespace(value, expected) ==
    FxParseWithNamespace(value, expected)

\* variant: only identifiers of registered namespaces are valid
ProviderIsValidRegistered(value) ==
    FxValid(value) /\ IsValidNamespace(SubSeq(value, 1, NamespaceLen))

\* variant: only the length of the value is looked at
ProviderIsValidLengthOnly(value) == Len(value) = BrandedLen

ProviderIsValid(value) == FxValid(value)

InFlight == Cardinality({p \in Procs : pc[p] # "idle"})

RECURSIVE SumLen(_, _)
SumLen(logs, i) == IF i = 0 THEN 0 ELSE Len(logs[i]) + SumLen(logs, i - 1)

NumIssued == SumLen(issued, Len(issued))

\* p.Generate(ns) is entered by caller c
Generate(c, pr, ns) ==
    /\ pc[c] = "idle"
    /\ pr \in DOMAIN provs
    /\ NumIssued + InFlight < MaxCalls
    /\ pc' = [pc EXCEPT ![c] = "lock"]
    /\ call' = [call EXCEPT ![c] = [NoCall EXCEPT !.prov = pr, !.ns = ns]]
    /\ UNCHANGED <<now, gens, provs, asked, issued, sawRegress>>
    /\ UNCHANGED parseVars
    /\ UNCHANGED schemaVars

\* variant: the lock is not taken
MayLockAlways(g) == TRUE

\* New: take the Generator's lock
MayLock(g) == g.mu = 0

Lock(c) ==
    /\ pc[c] = "lock"
    /\ LET gi == GeneratorOf(call[c].prov)
       IN  /\ MayLock(gens[gi])
           /\ gens' = [gens EXCEPT ![gi].mu = c]
    /\ pc' = [pc EXCEPT ![c] = "read"]
    /\ UNCHANGED <<now, provs, asked, call, issued, sawRegress>>
    /\ UNCHANGED parseVars
    /\ UNCHANGED schemaVars

\* New, holding the lock: read the clock and the Generator's state; a reading
\* that does not let New proceed sends it back to read the clock again
ReadClock(c) ==
    /\ pc[c] = "read"
    /\ LET g == gens[GeneratorOf(call[c].prov)]
       IN  IF CanProceed(g, now)
           THEN /\ call' = [call EXCEPT ![c].t = now,
                                        ![c].last = g.lastTick,
                                        ![c].sequence = g.sequence]
                /\ pc' = [pc EXCEPT ![c] = "write"]
           ELSE /\ call' = [call EXCEPT ![c].waited = TRUE]
                /\ pc' = pc
    /\ UNCHANGED <<now, gens, provs, asked, issued, sawRegress>>
    /\ UNCHANGED parseVars
    /\ UNCHANGED schemaVars

\* New: store the allotted slot, release the lock and return the identifier
WriteState(c) ==
    /\ pc[c] = "write"
    /\ LET gi   == GeneratorOf(call[c].prov)
           slot == NextSlot(call[c].last, call[c].sequence, call[c].t)
           id   == [ns      |-> call[c].ns,
                    payload |-> ComposePayload(slot.tick, gens[gi].worker,
                                               slot.sequence)]
       IN  /\ gens' = [gens EXCEPT ![gi].lastTick = slot.tick,
                                   ![gi].sequence = slot.sequence,
                                   ![gi].mu = 0]
           /\ issued' = [issued EXCEPT ![gi] = Append(@,
                               [ns |-> call[c].ns,
                                tick |-> slot.tick, sequence |-> slot.sequence,
                                prevTick |-> call[c].last,
                                prevSequence |-> call[c].sequence,
                                afterRegress |-> gi \in sawRegress,
                                waited |-> call[c].waited,
                                prov |-> call[c].prov,
                                id |-> id])]
    /\ pc' = [pc EXCEPT ![c] = "idle"]
    /\ call' = [call EXCEPT ![c] = NoCall]
    /\ UNCHANGED <<now, provs, asked, sawRegress>>
    /\ UNCHANGED parseVars
    /\ UNCHANGED schemaVars

\* the clock advances
Tick ==
    /\ now < MaxTick
    /\ now' = now + 1
    /\ UNCHANGED <<gens, provs, asked, pc, call, issued, sawRegress>>
    /\ UNCHANGED parseVars
    /\ UNCHANGED schemaVars

\* the clock is set back
Regress ==
    /\ \E t \in 1..(now - 1) :
          /\ now' = t
          /\ sawRegress' = sawRegress \cup
                 {gi \in DOMAIN gens : gens[gi].lastTick > t}
    /\ UNCHANGED <<gens, provs, asked, pc, call, issued>>
    /\ UNCHANGED parseVars
    /\ UNCHANGED schemaVars

ParseIdle ==
    /\ inRaw = <<>>
    /\ inExpected = <<>>
    /\ outOp = "none"
    /\ outRes = [id |-> ZeroID, err |-> NoErr, ok |-> FALSE]

(***************************************************************************)
(* Schema side: column types, columns, foreign keys, tables.               *)
(***************************************************************************)
\* strings.ToLower on ASCII
LowerOf(c) ==
    IF c \in Range(Upper)
    THEN Lower[CHOOSE i \in DOMAIN Upper : Upper[i] = c]
    ELSE c

ToLower(s) == [i \in DOMAIN s |-> LowerOf(s[i])]

\* strings.HasSuffix
HasSuffix(s, suffix) ==
    /\ Len(s) >= Len(suffix)
    /\ SubSeq(s, Len(s) - Len(suffix) + 1, Len(s)) = suffix

\* a schema.Type: kind is the Go type, Namespace is set on a BrandedIDType
StringType(t, size) ==
    [kind |-> "StringType", T |-> t, Size |-> size, Namespace |-> <<>>]

IntegerType(t) ==
    [kind |-> "IntegerType", T |-> t, Size |-> 0, Namespace |-> <<>>]

BrandedIDFromNamespace(ns) ==
    [kind |-> "BrandedIDType", T |-> "branded_id", Size |-> 0, Namespace |-> ns]

BrandedID(ns) == BrandedIDFromNamespace(ToUpper(ns))

\* the type assertion x.(*branded.BrandedIDType)
IsBrandedIDType(t) == t.kind = "BrandedIDType"

\* a schema.Column; Null is Type.Null, Comment the text of its Comment
\* attribute (empty when it has none)
NewColumn(name, type, null, comment) ==
    [Name |-> name, Type |-> type, Null |-> null, Comment |-> comment]

ForeignKey(symbol, columns, refColumns) ==
    [Symbol |-> symbol, Columns |-> columns, RefColumns |-> refColumns]

Table(name, columns, foreignKeys) ==
    [Name |-> name, Columns |-> columns, ForeignKeys |-> foreignKeys]

(***************************************************************************)
(* Validator.                                                              *)
(***************************************************************************)
ValidationError(table, column, fk, message) ==
    [Table |-> table, Column |-> column, FK |-> fk, Message |-> message]

WithStrict(strict) == [field |-> "strict", value |-> strict]

WithNamingConvention(enabled) == [field |-> "checkNaming", value |-> enabled]

RECURSIVE ApplyOptions(_, _, _)
ApplyOptions(v, opts, i) ==
    IF i > Len(opts) THEN v
    ELSE ApplyOptions(IF opts[i].field = "strict"
                      THEN [v EXCEPT !.strict = opts[i].value]
                      ELSE [v EXCEPT !.checkNaming = opts[i].value],
                      opts, i + 1)

\* variant: a Validator is not strict unless asked to be
NewValidatorLenient(opts) ==
    ApplyOptions([strict |-> FALSE, checkNaming |-> FALSE], opts, 1)

NewValidator(opts) ==
    ApplyOptions([strict |-> TRUE, checkNaming |-> FALSE], opts, 1)

ID_NAME == <<"i", "d">>

ID_SUFFIX == <<"_", "i", "d">>

isValidColumnName(colName, ns) ==
    IF colName = ID_NAME THEN TRUE
    ELSE IF colName = ToLower(ns) \o ID_SUFFIX THEN TRUE
    ELSE IF HasSuffix(colName, ID_SUFFIX) THEN TRUE
    ELSE FALSE

\* the errors of step 1 (namespace is known) and of step 2 (naming)
UnknownNamespaceErrors(v, tableName, col) ==
    IF v.strict /\ ~IsValidNamespace(col.Type.Namespace)
    THEN <<ValidationError(tableName, col.Name, <<>>,
                           <<"unknown namespace", col.Type.Namespace>>)>>
    ELSE <<>>

NamingErrors(v, tableName, col) ==
    IF v.checkNaming /\ ~isValidColumnName(col.Name, col.Type.Namespace)
    THEN <<ValidationError(tableName, col.Name, <<>>,
                           <<"recommended naming", ToLower(col.Type.Namespace)>>)>>
    ELSE <<>>

ValidateColumn(v, tableName, col) ==
    IF ~IsBrandedIDType(col.Type)
    THEN <<>>
    ELSE UnknownNamespaceErrors(v, tableName, col)
             \o NamingErrors(v, tableName, col)

ValueErrLength(value) ==
    [kind |-> "value length", expected |-> <<>>, actual |-> value]

ValueErrFormat(value) ==
    [kind |-> "value format", expected |-> <<>>, actual |-> value]

ValueErrNamespace(expected, ns) ==
    [kind |-> "value namespace", expected |-> expected, actual |-> ns]

\* variant: in strict mode the namespace of the value must be registered
ValidateValueRegistered(v, value, expected) ==
    IF Len(value) # BrandedLen THEN ValueErrLength(value)
    ELSE IF ~FxValid(value) THEN ValueErrFormat(value)
    ELSE IF v.strict /\ ~IsValidNamespace(SubSeq(value, 1, NamespaceLen))
    THEN ValueErrNamespace(expected, SubSeq(value, 1, NamespaceLen))
    ELSE IF expected # <<>> /\ SubSeq(value, 1, NamespaceLen) # expected
    THEN ValueErrNamespace(expected, SubSeq(value, 1, NamespaceLen))
    ELSE NoErr

\* variant: the expected namespace is compared first
ValidateValueNamespaceFirst(v, value, expected) ==
    IF expected # <<>> /\ Len(value) >= NamespaceLen
          /\ SubSeq(value, 1, NamespaceLen) # expected
    THEN ValueErrNamespace(expected, SubSeq(value, 1, NamespaceLen))
    ELSE IF Len(value) # BrandedLen THEN ValueErrLength(value)
    ELSE IF ~FxValid(value) THEN ValueErrFormat(value)
    ELSE NoErr

ValidateValue(v, value, expected) ==
    IF Len(value) # BrandedLen THEN ValueErrLength(value)
    ELSE IF ~FxValid(value) THEN ValueErrFormat(value)
    ELSE IF expected # <<>> /\ SubSeq(value, 1, NamespaceLen) # expected
    THEN ValueErrNamespace(expected, SubSeq(value, 1, NamespaceLen))
    ELSE NoErr

\* variant: a reference that is not branded is let through
ForeignKeyPairErrorsBrandedOnly(fk, i) ==
    IF i > Len(fk.RefColumns) THEN <<>>
    ELSE LET col    == fk.Columns[i]
             refCol == fk.RefColumns[i]
         IN  IF ~IsBrandedIDType(col.Type) \/ ~IsBrandedIDType(refCol.Type)
             THEN <<>>
             ELSE IF col.Type.Namespace # refCol.Type.Namespace
             THEN <<ValidationError(<<>>, <<>>, fk.Symbol,
                        <<"namespace mismatch", col.Name, col.Type.Namespace,
                          refCol.Name, refCol.Type.Namespace>>)>>
             ELSE <<>>

\* variant: a branded referencing column without a referenced column is
\* reported
ForeignKeyPairErrorsUnpaired(fk, i) ==
    IF i > Len(fk.RefColumns)
    THEN IF IsBrandedIDType(fk.Columns[i].Type)
         THEN <<ValidationError(<<>>, <<>>, fk.Symbol,
                    <<"reference not branded", fk.Columns[i].Name, <<>>>>)>>
         ELSE <<>>
    ELSE LET col    == fk.Columns[i]
             refCol == fk.RefColumns[i]
         IN  IF ~IsBrandedIDType(col.Type) THEN <<>>
             ELSE IF ~IsBrandedIDType(refCol.Type)
             THEN <<ValidationError(<<>>, <<>>, fk.Symbol,
                        <<"reference not branded", col.Name, refCol.Name>>)>>
             ELSE IF col.Type.Namespace # refCol.Type.Namespace
             THEN <<ValidationError(<<>>, <<>>, fk.Symbol,
                        <<"namespace mismatch", col.Name, col.Type.Namespace,
                          refCol.Name, refCol.Type.Namespace>>)>>
             ELSE <<>>

\* the errors of the i-th column pair of a foreign key
ForeignKeyPairErrors(fk, i) ==
    IF i > Len(fk.RefColumns) THEN <<>>
    ELSE LET col    == fk.Columns[i]
             refCol == fk.RefColumns[i]
         IN  IF ~IsBrandedIDType(col.Type) THEN <<>>
             ELSE IF ~IsBrandedIDType(refCol.Type)
             THEN <<ValidationError(<<>>, <<>>, fk.Symbol,
                        <<"reference not branded", col.Name, refCol.Name>>)>>
             ELSE IF col.Type.Namespace # refCol.Type.Namespace
             THEN <<ValidationError(<<>>, <<>>, fk.Symbol,
                        <<"namespace mismatch", col.Name, col.Type.Namespace,
                          refCol.Name, refCol.Type.Namespace>>)>>
             ELSE <<>>

RECURSIVE ForeignKeyErrorsFrom(_, _)
ForeignKeyErrorsFrom(fk, i) ==
    IF i > Len(fk.Columns) THEN <<>>
    ELSE ForeignKeyPairErrors(fk, i) \o ForeignKeyErrorsFrom(fk, i + 1)

ValidateForeignKey(v, fk) == ForeignKeyErrorsFrom(fk, 1)

RECURSIVE ColumnErrorsFrom(_, _, _)
ColumnErrorsFrom(v, t, i) ==
    IF i > Len(t.Columns) THEN <<>>
    ELSE ValidateColumn(v, t.Name, t.Columns[i]) \o ColumnErrorsFrom(v, t, i + 1)

RECURSIVE TableForeignKeyErrorsFrom(_, _, _)
TableForeignKeyErrorsFrom(v, t, i) ==
    IF i > Len(t.ForeignKeys) THEN <<>>
    ELSE ValidateForeignKey(v, t.ForeignKeys[i])
             \o TableForeignKeyErrorsFrom(v, t, i + 1)

\* variant: the foreign keys are checked only when the columns are clean
ValidateTableColumnsFirst(v, t) ==
    IF ColumnErrorsFrom(v, t, 1) # <<>>
    THEN ColumnErrorsFrom(v, t, 1)
    ELSE TableForeignKeyErrorsFrom(v, t, 1)

ValidateTable(v, t) ==
    ColumnErrorsFrom(v, t, 1) \o TableForeignKeyErrorsFrom(v, t, 1)

RECURSIVE SchemaErrorsFrom(_, _, _)
SchemaErrorsFrom(v, s, i) ==
    IF i > Len(s.Tables) THEN <<>>
    ELSE ValidateTable(v, s.Tables[i]) \o SchemaErrorsFrom(v, s, i + 1)

ValidateSchema(v, s) == SchemaErrorsFrom(v, s, 1)

(***************************************************************************)
(* fmt.Sprintf for the verbs the formats of this code use.                 *)
(***************************************************************************)
FMT_MISSING == <<"%", "!", "s", "(", "M", "I", "S", "S", "I", "N", "G", ")">>

FMT_EXTRA == <<"%", "!", "(", "E", "X", "T", "R", "A", " ">>

FMT_EXTRA_STRING == <<"s", "t", "r", "i", "n", "g", "=">>

\* the arguments no verb has taken, as Sprintf appends them
RECURSIVE ExtraArgsFrom(_, _)
ExtraArgsFrom(args, k) ==
    IF k > Len(args) THEN <<")">>
    ELSE FMT_EXTRA_STRING \o args[k]
             \o (IF k < Len(args) THEN <<",", " ">> ELSE <<>>)
             \o ExtraArgsFrom(args, k + 1)

FMT_MISSING_Q == <<"%", "!", "q", "(", "M", "I", "S", "S", "I", "N", "G", ")">>

\* strconv.Quote, which the verb %q applies to a string, on printable ASCII:
\* the text between double quotes, a backslash before every double quote and
\* every backslash in it
RECURSIVE QuoteFrom(_, _)
QuoteFrom(str, i) ==
    IF i > Len(str) THEN <<>>
    ELSE (IF str[i] \in {"\"", "\\"} THEN <<"\\", str[i]>> ELSE <<str[i]>>)
             \o QuoteFrom(str, i + 1)

Quote(str) == <<"\"">> \o QuoteFrom(str, 1) \o <<"\"">>

RECURSIVE SprintfFrom(_, _, _, _)
SprintfFrom(format, i, args, k) ==
    IF i > Len(format)
    THEN IF k <= Len(args) THEN FMT_EXTRA \o ExtraArgsFrom(args, k) ELSE <<>>
    ELSE IF format[i] = "%" /\ i < Len(format) /\ format[i + 1] = "s"
    THEN (IF k <= Len(args) THEN args[k] ELSE FMT_MISSING)
             \o SprintfFrom(format, i + 2, args, k + 1)
    ELSE IF format[i] = "%" /\ i < Len(format) /\ format[i + 1] = "q"
    THEN (IF k <= Len(args) THEN Quote(args[k]) ELSE FMT_MISSING_Q)
             \o SprintfFrom(format, i + 2, args, k + 1)
    ELSE IF format[i] = "%" /\ i < Len(format) /\ format[i + 1] = "%"
    THEN <<"%">> \o SprintfFrom(format, i + 2, args, k)
    ELSE <<format[i]>> \o SprintfFrom(format, i + 1, args, k)

Sprintf(format, args) == SprintfFrom(format, 1, args, 1)

(***************************************************************************)
(* CHECK constraints for branded columns.                                  *)
(***************************************************************************)
FMT_EXPR ==
    <<"%", "s", " ", "~", " ", "'", "^", "%", "s", "[", "0", "-",
      "9", "A", "-", "Z", "a", "-", "z", "]", "{", "1", "1", "}",
      "$", "'">>

FMT_EXPR_NULL ==
    <<"%", "s", " ", "I", "S", " ", "N", "U", "L", "L", " ", "O",
      "R", " ", "%", "s", " ", "~", " ", "'", "^", "%", "s", "[",
      "0", "-", "9", "A", "-", "Z", "a", "-", "z", "]", "{", "1",
      "1", "}", "$", "'">>

FMT_NAME_BRANDED ==
    <<"c", "h", "k", "_", "%", "s", "_", "%", "s", "_", "b", "r",
      "a", "n", "d", "e", "d">>

FMT_NAME_FORMAT ==
    <<"c", "h", "k", "_", "%", "s", "_", "%", "s", "_", "f", "o",
      "r", "m", "a", "t">>

CheckConstraintExpr(column, ns) == Sprintf(FMT_EXPR, <<column, ns>>)

\* an option sets one field of the config: enabled or constraintFmt
WithBrandedConstraints(enabled) ==
    [field |-> "enabled", enabled |-> enabled, format |-> <<>>]

WithConstraintFormat(format) ==
    [field |-> "constraintFmt", enabled |-> FALSE, format |-> format]

RECURSIVE ApplyConstraintOptions(_, _, _)
ApplyConstraintOptions(config, opts, i) ==
    IF i > Len(opts) THEN config
    ELSE ApplyConstraintOptions(IF opts[i].field = "enabled"
                                THEN [config EXCEPT !.enabled = opts[i].enabled]
                                ELSE [config EXCEPT !.constraintFmt = opts[i].format],
                                opts, i + 1)

\* variant: the default format is the one of CheckConstraintName
NewBrandedConstraintGeneratorFormatName(opts) ==
    ApplyConstraintOptions([enabled |-> TRUE, constraintFmt |-> FMT_NAME_FORMAT],
                           opts, 1)

NewBrandedConstraintGenerator(opts) ==
    ApplyConstraintOptions([enabled |-> TRUE, constraintFmt |-> FMT_NAME_BRANDED],
                           opts, 1)

\* a *schema.Check; nil when there is none
NilCheck == [nil |-> TRUE, Name |-> <<>>, Expr |-> <<>>]

Check(name, expr) == [nil |-> FALSE, Name |-> name, Expr |-> expr]

\* variant: the expression does not allow for NULL
GenerateForColumnNotNull(g, tableName, col) ==
    IF ~g.enabled THEN NilCheck
    ELSE IF ~IsBrandedIDType(col.Type) THEN NilCheck
    ELSE Check(Sprintf(g.constraintFmt, <<tableName, col.Name>>),
               Sprintf(FMT_EXPR, <<col.Name, col.Type.Namespace>>))

GenerateForColumn(g, tableName, col) ==
    IF ~g.enabled THEN NilCheck
    ELSE IF ~IsBrandedIDType(col.Type) THEN NilCheck
    ELSE LET constraintName == Sprintf(g.constraintFmt, <<tableName, col.Name>>)
             ns             == col.Type.Namespace
             expr           == IF col.Null
                               THEN Sprintf(FMT_EXPR_NULL, <<col.Name, col.Name, ns>>)
                               ELSE Sprintf(FMT_EXPR, <<col.Name, ns>>)
         IN  Check(constraintName, expr)

\* the loop of GenerateForTable over t.Columns from the i-th on
RECURSIVE GenerateForTableFrom(_, _, _)
GenerateForTableFrom(g, t, i) ==
    IF i > Len(t.Columns) THEN <<>>
    ELSE LET check == GenerateForColumn(g, t.Name, t.Columns[i])
         IN  (IF check.nil THEN <<>> ELSE <<check>>)
                 \o GenerateForTableFrom(g, t, i + 1)

GenerateForTable(g, t) ==
    IF ~g.enabled THEN <<>> ELSE GenerateForTableFrom(g, t, 1)

FMT_SQL == <<"A", "L", "T", "E", "R", " ", "T", "A", "B", "L", "E", " ", "%", "q", " ", "A", "D", "D", " ", "C", "O", "N", "S", "T", "R", "A", "I", "N", "T", " ", "%", "q", " ", "C", "H", "E", "C", "K", " ", "(", "%", "s", ")", ";">>

\* the empty string when there is no check
GenerateSQL(g, tableName, col) ==
    LET check == GenerateForColumn(g, tableName, col)
    IN  IF check.nil THEN <<>>
        ELSE Sprintf(FMT_SQL, <<tableName, check.Name, check.Expr>>)

\* variant: the names are written without quotes
GenerateAllSQLPlain(g, t) ==
    LET checks == GenerateForTable(g, t)
    IN  [i \in DOMAIN checks |->
            Sprintf(<<"A", "L", "T", "E", "R", " ", "T", "A", "B", "L", "E", " ", "%", "s", " ", "A", "D", "D", " ", "C", "O", "N", "S", "T", "R", "A", "I", "N", "T", " ", "%", "s", " ", "C", "H", "E", "C", "K", " ", "(", "%", "s", ")", ";">>,
                    <<t.Name, checks[i].Name, checks[i].Expr>>)]

GenerateAllSQL(g, t) ==
    LET checks == GenerateForTable(g, t)
    IN  [i \in DOMAIN checks |->
            Sprintf(FMT_SQL, <<t.Name, checks[i].Name, checks[i].Expr>>)]

\* variant: the name the constraint generator gives by default
CheckConstraintNameBranded(table, column) ==
    Sprintf(FMT_NAME_BRANDED, <<table, column>>)

CheckConstraintName(table, column) == Sprintf(FMT_NAME_FORMAT, <<table, column>>)

(***************************************************************************)
(* Column comments.                                                        *)
(***************************************************************************)
CommentMarker == <<"b", "r", "a", "n", "d", "e", "d", "_", "i", "d", ":">>

\* reComment, branded_id:([A-Z]{3}): a literal followed by one group of
\* count characters of a class
reComment == [literal |-> CommentMarker, class |-> Upper, count |-> 3]

\* the expression matches the text at position i
MatchesAt(re, text, i) ==
    /\ i + Len(re.literal) + re.count - 1 <= Len(text)
    /\ SubSeq(text, i, i + Len(re.literal) - 1) = re.literal
    /\ \A j \in 0..(re.count - 1) :
           text[i + Len(re.literal) + j] \in Range(re.class)

\* the leftmost match and its group, or nil (<<>>)
RECURSIVE FindStringSubmatchFrom(_, _, _)
FindStringSubmatchFrom(re, text, i) ==
    IF i > Len(text) THEN <<>>
    ELSE IF MatchesAt(re, text, i)
    THEN <<SubSeq(text, i, i + Len(re.literal) + re.count - 1),
           SubSeq(text, i + Len(re.literal), i + Len(re.literal) + re.count - 1)>>
    ELSE FindStringSubmatchFrom(re, text, i + 1)

FindStringSubmatch(re, text) == FindStringSubmatchFrom(re, text, 1)

\* variant: the marker is looked for at the start of the comment only
ParseCommentPrefix(comment) ==
    IF MatchesAt(reComment, comment, 1)
    THEN [ns |-> SubSeq(comment, Len(CommentMarker) + 1, Len(CommentMarker) + 3),
          ok |-> TRUE]
    ELSE [ns |-> <<>>, ok |-> FALSE]

ParseComment(comment) ==
    LET matches == FindStringSubmatch(reComment, comment)
    IN  IF Len(matches) # 2
        THEN [ns |-> <<>>, ok |-> FALSE]
        ELSE [ns |-> matches[2], ok |-> TRUE]

(***************************************************************************)
(* Inspection: recovering BrandedIDTypes from column comments.             *)
(***************************************************************************)
\* fmt.Sprintf("%s%s", CommentMarker, ns); variant: the marker is left out
FormatCommentBare(ns) == Sprintf(<<"%", "s">>, <<ns>>)

FormatComment(ns) == Sprintf(<<"%", "s", "%", "s">>, <<CommentMarker, ns>>)

\* (*BrandedIDType).Underlying: the physical SQL type
Underlying(t) == StringType("character varying", 14)

\* a nil *schema.ColumnType
NilType == [kind |-> "nil", T |-> "", Size |-> 0, Namespace |-> <<>>]

\* schema.Attr values: a *schema.Comment and one of another Go type
Comment(text) == [kind |-> "Comment", Text |-> text]

Collation(v) == [kind |-> "Collation", Text |-> v]

\* a schema.Column as the inspection sees it: Type is NilType when c.Type is
\* nil, Attrs are its attributes in order
InspectedColumn(name, type, attrs) ==
    [Name |-> name, Type |-> type, Attrs |-> attrs]

\* schema.ReplaceOrAppend: the first attribute of v's Go type is replaced,
\* v is appended when there is none
RECURSIVE ReplaceOrAppendFrom(_, _, _)
ReplaceOrAppendFrom(attrs, v, i) ==
    IF i > Len(attrs) THEN Append(attrs, v)
    ELSE IF attrs[i].kind = v.kind THEN [attrs EXCEPT ![i] = v]
    ELSE ReplaceOrAppendFrom(attrs, v, i + 1)

\* (*schema.Column).SetComment
SetComment(c, text) ==
    [c EXCEPT !.Attrs = ReplaceOrAppendFrom(@, Comment(text), 1)]

\* getComment: the text of the first *schema.Comment among c.Attrs
RECURSIVE getCommentFrom(_, _)
getCommentFrom(c, i) ==
    IF i > Len(c.Attrs) THEN <<>>
    ELSE IF c.Attrs[i].kind = "Comment" THEN c.Attrs[i].Text
    ELSE getCommentFrom(c, i + 1)

getComment(c) == getCommentFrom(c, 1)

\* variant: the size is not looked at
isBrandedIDCompatibleAnySize(t) == t.kind = "StringType"

\* the type switch: a *schema.StringType of Size 14, whatever its T
isBrandedIDCompatible(t) == t.kind = "StringType" /\ t.Size = 14

\* variant: a column that is branded already is converted again
convertBrandedIDColumnAgain(c) ==
    IF c.Type.kind = "nil" THEN c
    ELSE LET comment == getComment(c)
             parsed == ParseComment(comment)
         IN  IF comment = <<>> \/ ~parsed.ok THEN c
             ELSE IF ~(isBrandedIDCompatible(c.Type) \/ IsBrandedIDType(c.Type))
                  THEN c
                  ELSE [c EXCEPT !.Type = BrandedIDFromNamespace(parsed.ns)]

convertBrandedIDColumn(c) ==
    IF c.Type.kind = "nil" THEN c
    ELSE LET comment == getComment(c)
         IN  IF comment = <<>> THEN c
             ELSE LET parsed == ParseComment(comment)
                  IN  IF ~parsed.ok THEN c
                      ELSE IF ~isBrandedIDCompatible(c.Type) THEN c
                      ELSE [c EXCEPT !.Type = BrandedIDFromNamespace(parsed.ns)]

ConvertBrandedIDColumnsInTable(t) ==
    [t EXCEPT !.Columns = [i \in DOMAIN @ |-> convertBrandedIDColumn(@[i])]]

ConvertBrandedIDColumns(s) ==
    [i \in DOMAIN s |-> ConvertBrandedIDColumnsInTable(s[i])]

IsBrandedIDColumn(c) == c.Type.kind # "nil" /\ IsBrandedIDType(c.Type)

SetBrandedIDComment(c) ==
    IF ~IsBrandedIDType(c.Type) THEN c
    ELSE SetComment(c, FormatComment(c.Type.Namespace))

(***************************************************************************)
(* The declarative-config type spec: branded_id("XXX").                    *)
(***************************************************************************)
TypeBrandedID == "branded_id"

\* a *schemahcl.Attr: its key, its value and the kind of the value
StringAttr(k, v) == [K |-> k, V |-> v, kind |-> "string"]

IntAttr(k, v) == [K |-> k, V |-> v, kind |-> "int"]

\* (*schemahcl.Attr).String: the value of a string attribute, an error for
\* an attribute of another kind
AttrString(a) ==
    IF a.kind = "string" THEN [value |-> a.V, err |-> ""]
    ELSE [value |-> <<>>, err |-> "attribute is not a string"]

\* a *schemahcl.Type, and nil
HclType(t, attrs) == [nil |-> FALSE, T |-> t, Attrs |-> attrs]

NilHclType == [nil |-> TRUE, T |-> "", Attrs |-> <<>>]

ERR_WRONG_TYPE_NAME == "branded: expected type, got"

ERR_MISSING_NAMESPACE == "branded: missing namespace attribute"

ERR_INVALID_NAMESPACE == "branded: invalid namespace"

ERR_NOT_BRANDED == "branded: expected *BrandedIDType, got"

\* namespaceFromAttrs: the first attribute with key namespace
RECURSIVE namespaceFromAttrsAt(_, _)
namespaceFromAttrsAt(attrs, i) ==
    IF i > Len(attrs) THEN [value |-> <<>>, err |-> ERR_MISSING_NAMESPACE]
    ELSE IF attrs[i].K = "namespace" THEN AttrString(attrs[i])
    ELSE namespaceFromAttrsAt(attrs, i + 1)

namespaceFromAttrs(attrs) == namespaceFromAttrsAt(attrs, 1)

\* variant: the attributes are looked at before the type name
fromSpecAttrsFirst(t) ==
    LET got == namespaceFromAttrs(t.Attrs)
    IN  IF got.err # "" THEN [type |-> NilType, err |-> got.err]
        ELSE IF t.T # TypeBrandedID
             THEN [type |-> NilType, err |-> ERR_WRONG_TYPE_NAME]
        ELSE IF ~IsValidNamespace(got.value)
             THEN [type |-> NilType, err |-> ERR_INVALID_NAMESPACE]
        ELSE [type |-> BrandedID(got.value), err |-> ""]

fromSpec(t) ==
    IF t.T # TypeBrandedID
    THEN [type |-> NilType, err |-> ERR_WRONG_TYPE_NAME]
    ELSE LET got == namespaceFromAttrs(t.Attrs)
         IN  IF got.err # "" THEN [type |-> NilType, err |-> got.err]
             ELSE IF ~IsValidNamespace(got.value)
                  THEN [type |-> NilType, err |-> ERR_INVALID_NAMESPACE]
             ELSE [type |-> BrandedID(got.value), err |-> ""]

\* variant: the namespace is written as an attribute without a key
toSpecPositional(t) ==
    IF ~IsBrandedIDType(t) THEN [spec |-> NilHclType, err |-> ERR_NOT_BRANDED]
    ELSE [spec |-> HclType(TypeBrandedID, <<StringAttr("", t.Namespace)>>),
          err |-> ""]

toSpec(t) ==
    IF ~IsBrandedIDType(t) THEN [spec |-> NilHclType, err |-> ERR_NOT_BRANDED]
    ELSE [spec |-> HclType(TypeBrandedID,
                           <<StringAttr("namespace", t.Namespace)>>),
          err |-> ""]

\* no schema is under inspection
InspectIdle ==
    /\ inspected = <<>>
    /\ history = <<>>

\* no Validator call has been made; the Validator is the default one
SchemaIdle ==
    /\ validator = NewValidator(<<>>)
    /\ inArg = [op |-> "none"]
    /\ outErrs = <<>>
    /\ cgen = NewBrandedConstraintGenerator(<<>>)
    /\ outVal = <<>>
    /\ InspectIdle

\* the heap at start-up holds the default Generator (worker id 0)
StartHeap == <<NewGenerator(0)>>

\* two providers constructed with NewProvider(w1) and NewProvider(w2)
InitProviders(w1, w2) ==
    LET r1 == NewProvider(StartHeap, w1)
        r2 == NewProvider(r1.heap, w2)
    IN  /\ gens = r2.heap
        /\ provs = <<r1.prov, r2.prov>>
        /\ asked = <<w1, w2>>

GenIdle ==
    /\ pc = [c \in Procs |-> "idle"]
    /\ call = [c \in Procs |-> NoCall]
    /\ issued = [gi \in DOMAIN gens |-> <<>>]
    /\ sawRegress = {}

Init ==
    /\ now = 1
    /\ \E ws \in WorkerPairs : InitProviders(ws[1], ws[2])
    /\ GenIdle
    /\ ParseIdle
    /\ SchemaIdle

\* the namespace does not enter the allotment of a payload: the concurrent
\* callers all ask for NS_TASK, the mix of namespaces is left to SpecSeq
Next ==
    \/ \E c \in Procs, pr \in DOMAIN provs : Generate(c, pr, NS_TASK)
    \/ \E c \in Procs : Lock(c)
    \/ \E c \in Procs : ReadClock(c)
    \/ \E c \in Procs : WriteState(c)
    \/ Tick
    \/ Regress

Spec == Init /\ [][Next]_vars

(***************************************************************************)
(* Default providers: DefaultProvider() is called any number of times,     *)
(* between and during the callers' Generate calls.                         *)
(***************************************************************************)
\* the DefaultProvider() calls of one behaviour
MaxProviders == 2

\* DefaultProvider() returns one more Provider
DoDefaultProvider ==
    /\ Len(provs) < MaxProviders
    /\ LET r == DefaultProvider(gens)
       IN  /\ gens' = r.heap
           /\ provs' = Append(provs, r.prov)
           /\ asked' = Append(asked, 0)
           /\ issued' = [gi \in DOMAIN r.heap |->
                           IF gi \in DOMAIN issued THEN issued[gi] ELSE <<>>]
    /\ UNCHANGED <<now, pc, call, sawRegress>>
    /\ UNCHANGED parseVars
    /\ UNCHANGED schemaVars

InitDefault ==
    /\ now = 1
    /\ gens = StartHeap
    /\ provs = <<>>
    /\ asked = <<>>
    /\ GenIdle
    /\ ParseIdle
    /\ SchemaIdle

NextDefault ==
    \/ DoDefaultProvider
    \/ \E c \in Procs, pr \in DOMAIN provs : Generate(c, pr, NS_TASK)
    \/ \E c \in Procs : Lock(c)
    \/ \E c \in Procs : ReadClock(c)
    \/ \E c \in Procs : WriteState(c)
    \/ Tick
    \/ Regress

SpecDefault == InitDefault /\ [][NextDefault]_vars

(***************************************************************************)
(* One caller on one provider: the calls of a behaviour follow each other. *)
(***************************************************************************)
InitSeq ==
    /\ now = 1
    /\ \E w \in WorkerIds :
          LET r == NewProvider(StartHeap, w)
          IN  gens = r.heap /\ provs = <<r.prov>> /\ asked = <<w>>
    /\ GenIdle
    /\ ParseIdle
    /\ SchemaIdle

NextSeq ==
    \/ \E pr \in DOMAIN provs, ns \in GenNamespaces : Generate(1, pr, ns)
    \/ Lock(1)
    \/ ReadClock(1)
    \/ WriteState(1)
    \/ Tick
    \/ Regress

SpecSeq == InitSeq /\ [][NextSeq]_vars

(***************************************************************************)
(* The parser as a function of its input: Init draws the raw string and    *)
(* the expected namespace, the actions apply one operation of the Provider *)
(* and leave its result in outRes.                                         *)
(***************************************************************************)
NS_LOWER == <<"t", "s", "k">>

NsSamples ==
    {NS_TASK, NS_EPIC, NS_UNKNOWN, NS_LOWER,
     <<"T", "1", "K">>, <<"T", "S", "_">>, <<"T", "S">>,
     <<"T", "S", "K", "K">>}

PAYLOAD_TASK == <<"0", "I", "j", "1", "P", "1", "3", "F", "R", "D", "M">>

PAYLOAD_EPIC == <<"0", "K", "5", "M", "2", "v", "u", "I", "U", "L", "Y">>

PAYLOAD_MIN == [i \in 1..PayloadLen |-> "0"]

\* the top of the 11-character base-62 range
PAYLOAD_MAX == [i \in 1..PayloadLen |-> "z"]

PayloadSamples ==
    {PAYLOAD_TASK, PAYLOAD_EPIC, PAYLOAD_MIN, PAYLOAD_MAX,
     [PAYLOAD_TASK EXCEPT ![PayloadLen] = "!"],
     [PAYLOAD_TASK EXCEPT ![1] = "_"],
     [PAYLOAD_TASK EXCEPT ![6] = " "],
     SubSeq(PAYLOAD_TASK, 1, PayloadLen - 1),
     PAYLOAD_TASK \o <<"0">>,
     <<>>}

\* the literal inputs of the tests that are not a namespace and a payload
LiteralSamples ==
    {<<"T", "S", "K", "1", "2", "3">>,
     <<"s", "h", "o", "r", "t">>,
     <<"I", "N", "V", "A", "L", "I", "D", "_", "F", "O", "R", "M", "A", "T">>,
     <<"I", "N", "V", "A", "L", "I", "D", "_", "F", "O", "R", "M", "A", "T",
       "!">>}

RawInputs == {n \o p : n \in NsSamples, p \in PayloadSamples} \cup LiteralSamples

ExpectedInputs == {NS_TASK, NS_EPIC, NS_UNKNOWN, NS_LOWER, <<>>}

Result(r, ok) == [id |-> r.id, err |-> r.err, ok |-> ok]

DoParse ==
    /\ outOp' = "Parse"
    /\ outRes' = Result(ProviderParse(inRaw), FALSE)
    /\ UNCHANGED <<inRaw, inExpected>>
    /\ UNCHANGED genVars
    /\ UNCHANGED inspectVars
    /\ UNCHANGED schemaVars

DoParseWithNamespace ==
    /\ outOp' = "ParseWithNamespace"
    /\ outRes' = Result(ProviderParseWithNamespace(inRaw, inExpected), FALSE)
    /\ UNCHANGED <<inRaw, inExpected>>
    /\ UNCHANGED genVars
    /\ UNCHANGED inspectVars
    /\ UNCHANGED schemaVars

DoIsValid ==
    /\ outOp' = "IsValid"
    /\ outRes' = Result([id |-> ZeroID, err |-> NoErr], ProviderIsValid(inRaw))
    /\ UNCHANGED <<inRaw, inExpected>>
    /\ UNCHANGED genVars
    /\ UNCHANGED inspectVars
    /\ UNCHANGED schemaVars

InitParse ==
    /\ now = 1
    /\ gens = StartHeap
    /\ provs = <<>>
    /\ asked = <<>>
    /\ GenIdle
    /\ inRaw \in RawInputs
    /\ inExpected \in ExpectedInputs
    /\ outOp = "none"
    /\ outRes = Result([id |-> ZeroID, err |-> NoErr], FALSE)
    /\ SchemaIdle

NextParse == DoParse \/ DoParseWithNamespace \/ DoIsValid

SpecParse == InitParse /\ [][NextParse]_vars

(***************************************************************************)
(* The Validator as a function of its inputs: one action per operation,    *)
(* each leaving its argument in inArg (inRaw, inExpected for a value) and  *)
(* its result in outErrs (outRes for a value).                             *)
(***************************************************************************)
T_TASKS == <<"t", "a", "s", "k", "s">>

T_EPICS == <<"e", "p", "i", "c", "s">>

T_BAD == <<"b", "a", "d", "_", "t", "a", "b", "l", "e">>

TableNames == {T_TASKS, T_EPICS, T_BAD}

N_TSK_ID == <<"t", "s", "k", "_", "i", "d">>

N_EPIC_ID == <<"e", "p", "i", "c", "_", "i", "d">>

N_TASK_ID == <<"t", "a", "s", "k", "_", "i", "d">>

N_IDENTIFIER == <<"i", "d", "e", "n", "t", "i", "f", "i", "e", "r">>

N_NAME == <<"n", "a", "m", "e">>

N_ID_UPPER == <<"I", "D">>

ColumnNames ==
    {ID_NAME, N_TSK_ID, N_EPIC_ID, N_TASK_ID, N_IDENTIFIER, N_NAME, N_ID_UPPER,
     ID_SUFFIX}

ColumnTypes ==
    {BrandedIDFromNamespace(NS_TASK), BrandedIDFromNamespace(NS_EPIC),
     BrandedID(NS_UNKNOWN), BrandedIDFromNamespace(NS_LOWER),
     StringType("varchar", 255), IntegerType("bigint")}

Columns == {NewColumn(n, t, FALSE, <<>>) : n \in ColumnNames, t \in ColumnTypes}

FK_TASK_EPIC == <<"f", "k", "_", "t", "a", "s", "k", "_", "e", "p", "i", "c">>

FK_BAD == <<"f", "k", "_", "b", "a", "d">>

\* the columns the foreign keys are made of
FkColumns ==
    {NewColumn(N_EPIC_ID, BrandedIDFromNamespace(NS_EPIC), FALSE, <<>>),
     NewColumn(N_TASK_ID, BrandedIDFromNamespace(NS_TASK), FALSE, <<>>),
     NewColumn(ID_NAME, BrandedIDFromNamespace(NS_EPIC), FALSE, <<>>),
     NewColumn(ID_NAME, IntegerType("bigint"), FALSE, <<>>)}

SeqsUpTo(S, n) == UNION {[1..k -> S] : k \in 0..n}

ForeignKeys ==
    {ForeignKey(sym, cols, refs) :
        sym \in {FK_TASK_EPIC, FK_BAD},
        cols \in SeqsUpTo(FkColumns, MaxFkColumns),
        refs \in SeqsUpTo(FkColumns, MaxFkColumns)}

COL_EPIC_ID == NewColumn(N_EPIC_ID, BrandedIDFromNamespace(NS_EPIC), TRUE, <<>>)

COL_ID_EPIC == NewColumn(ID_NAME, BrandedIDFromNamespace(NS_EPIC), FALSE, <<>>)

COL_ID_TASK == NewColumn(ID_NAME, BrandedIDFromNamespace(NS_TASK), FALSE, <<>>)

COL_ID_BAD == NewColumn(ID_NAME, BrandedID(NS_UNKNOWN), FALSE, <<>>)

COL_BAD_NAME == NewColumn(N_IDENTIFIER, BrandedID(NS_UNKNOWN), FALSE, <<>>)

COL_ID_INT == NewColumn(ID_NAME, IntegerType("bigint"), FALSE, <<>>)

\* the tables of the tests, and tables with several violations
Tables ==
    {Table(T_EPICS, <<COL_ID_EPIC>>, <<>>),
     Table(T_TASKS, <<COL_ID_TASK, COL_EPIC_ID>>,
           <<ForeignKey(FK_TASK_EPIC, <<COL_EPIC_ID>>, <<COL_ID_EPIC>>)>>),
     Table(T_BAD, <<COL_ID_BAD>>, <<>>),
     Table(T_BAD, <<COL_BAD_NAME, COL_ID_TASK, COL_ID_BAD>>,
           <<ForeignKey(FK_BAD, <<COL_ID_TASK, COL_EPIC_ID>>,
                                <<COL_ID_EPIC, COL_ID_INT>>),
             ForeignKey(FK_TASK_EPIC, <<COL_EPIC_ID>>, <<COL_ID_TASK>>)>>),
     Table(T_TASKS, <<COL_ID_INT>>,
           <<ForeignKey(FK_BAD, <<COL_ID_TASK>>, <<COL_ID_INT>>)>>)}

Schemas == {[Name |-> "public", Tables |-> ts] : ts \in SeqsUpTo(Tables, MaxTables)}

ValidatorOptions ==
    {<<>>,
     <<WithStrict(FALSE)>>,
     <<WithNamingConvention(TRUE)>>,
     <<WithStrict(FALSE), WithNamingConvention(TRUE)>>,
     <<WithStrict(FALSE), WithStrict(TRUE)>>}

NoValue == Result([id |-> ZeroID, err |-> NoErr], FALSE)

\* the arguments of the Validator's operations, tagged with the operation
\* primary: the column is part of its table's primary key, which the table
\* records and ValidateColumn is not handed
ValidateColumnArgs ==
    {[op |-> "ValidateColumn", tableName |-> t, col |-> c, primary |-> pk] :
        t \in TableNames, c \in Columns, pk \in BOOLEAN}

ValidateForeignKeyArgs == {[op |-> "ValidateForeignKey", fk |-> fk] : fk \in ForeignKeys}

ValidateSchemaArgs == {[op |-> "ValidateSchema", s |-> sch] : sch \in Schemas}

DoValidateValue ==
    /\ inArg.op = "ValidateValue"
    /\ outOp' = "ValidateValue"
    /\ outRes' = Result([id  |-> ZeroID,
                         err |-> ValidateValue(validator, inRaw, inExpected)],
                        FALSE)
    /\ UNCHANGED <<inRaw, inExpected, validator, inArg, outErrs, cgen, outVal>>
    /\ UNCHANGED genVars
    /\ UNCHANGED inspectVars

DoValidateColumn ==
    /\ inArg.op = "ValidateColumn"
    /\ outOp' = "ValidateColumn"
    /\ outErrs' = ValidateColumn(validator, inArg.tableName, inArg.col)
    /\ UNCHANGED <<inRaw, inExpected, outRes, validator, inArg, cgen, outVal>>
    /\ UNCHANGED genVars
    /\ UNCHANGED inspectVars

DoValidateForeignKey ==
    /\ inArg.op = "ValidateForeignKey"
    /\ outOp' = "ValidateForeignKey"
    /\ outErrs' = ValidateForeignKey(validator, inArg.fk)
    /\ UNCHANGED <<inRaw, inExpected, outRes, validator, inArg, cgen, outVal>>
    /\ UNCHANGED genVars
    /\ UNCHANGED inspectVars

DoValidateSchema ==
    /\ inArg.op = "ValidateSchema"
    /\ outOp' = "ValidateSchema"
    /\ outErrs' = ValidateSchema(validator, inArg.s)
    /\ UNCHANGED <<inRaw, inExpected, outRes, validator, inArg, cgen, outVal>>
    /\ UNCHANGED genVars
    /\ UNCHANGED inspectVars

InitValidate ==
    /\ now = 1
    /\ gens = StartHeap
    /\ provs = <<>>
    /\ asked = <<>>
    /\ GenIdle
    /\ validator \in {NewValidator(opts) : opts \in ValidatorOptions}
    /\ \/ /\ inArg = [op |-> "ValidateValue"]
          /\ inRaw \in RawInputs
          /\ inExpected \in ExpectedInputs
       \/ /\ inArg \in ValidateColumnArgs \cup ValidateForeignKeyArgs
                           \cup ValidateSchemaArgs
          /\ inRaw = <<>>
          /\ inExpected = <<>>
    /\ outOp = "none"
    /\ outRes = NoValue
    /\ outErrs = <<>>
    /\ cgen = NewBrandedConstraintGenerator(<<>>)
    /\ outVal = <<>>
    /\ InspectIdle

NextValidate ==
    \/ DoValidateValue
    \/ DoValidateColumn
    \/ DoValidateForeignKey
    \/ DoValidateSchema

SpecValidate == InitValidate /\ [][NextValidate]_vars

(***************************************************************************)
(* The constraint generator as a function of its configuration and its     *)
(* arguments; inArg.opts are the options the generator was made with.      *)
(***************************************************************************)
N_TITLE == <<"t", "i", "t", "l", "e">>

FMT_VERB_S == <<"%", "s">>

\* the parts of a name format around its two verbs
FormatPieces ==
    {<<<<"b", "r", "a", "n", "d", "e", "d", "_">>, <<"_">>, <<"_", "c", "h", "e", "c", "k">>>>,
     <<<<>>, <<".">>, <<>>>>}

FormatOf(pieces) ==
    pieces[1] \o FMT_VERB_S \o pieces[2] \o FMT_VERB_S \o pieces[3]

ConstraintOptions ==
    {<<>>, <<WithBrandedConstraints(FALSE)>>, <<WithBrandedConstraints(TRUE)>>}
        \cup {<<WithConstraintFormat(FormatOf(pieces))>> : pieces \in FormatPieces}
        \cup {<<WithConstraintFormat(FormatOf(pieces)), WithBrandedConstraints(FALSE)>> :
                 pieces \in FormatPieces}

ConstraintColumns ==
    {NewColumn(n, t, null, <<>>) :
        n \in {ID_NAME, N_EPIC_ID, N_TITLE}, t \in ColumnTypes, null \in BOOLEAN}

GenerateForColumnArgs(opts) ==
    {[op |-> "GenerateForColumn", opts |-> opts, tableName |-> t, col |-> c] :
        t \in TableNames, c \in ConstraintColumns}

CheckConstraintExprArgs ==
    {[op |-> "CheckConstraintExpr", column |-> n, ns |-> ns] :
        n \in ColumnNames, ns \in {NS_TASK, NS_EPIC, NS_UNKNOWN, NS_LOWER}}

DoGenerateForColumn ==
    /\ inArg.op = "GenerateForColumn"
    /\ outOp' = "GenerateForColumn"
    /\ outVal' = GenerateForColumn(cgen, inArg.tableName, inArg.col)
    /\ UNCHANGED <<inRaw, inExpected, outRes, validator, inArg, outErrs, cgen>>
    /\ UNCHANGED genVars
    /\ UNCHANGED inspectVars

DoCheckConstraintExpr ==
    /\ inArg.op = "CheckConstraintExpr"
    /\ outOp' = "CheckConstraintExpr"
    /\ outVal' = CheckConstraintExpr(inArg.column, inArg.ns)
    /\ UNCHANGED <<inRaw, inExpected, outRes, validator, inArg, outErrs, cgen>>
    /\ UNCHANGED genVars
    /\ UNCHANGED inspectVars

\* the columns of a table handed to GenerateAllSQL
MaxColumns == 3

T_QUOTED == <<"m", "y", "\"", "t", "a", "s", "k", "s">>

COL_TITLE == NewColumn(N_TITLE, StringType("varchar", 255), TRUE, <<>>)

ConstraintTables ==
    {Table(n, cols, <<>>) :
        n \in {T_TASKS, T_QUOTED},
        cols \in SeqsUpTo({COL_ID_TASK, COL_EPIC_ID, COL_ID_INT, COL_TITLE}, MaxColumns)}

GenerateSQLArgs(opts) ==
    {[op |-> "GenerateSQL", opts |-> opts, tableName |-> t, col |-> c] :
        t \in {T_TASKS, T_QUOTED}, c \in ConstraintColumns}

GenerateAllSQLArgs(opts) ==
    {[op |-> "GenerateAllSQL", opts |-> opts, table |-> t] : t \in ConstraintTables}

CheckConstraintNameArgs ==
    {[op |-> "CheckConstraintName", table |-> t, column |-> n] :
        t \in TableNames, n \in ColumnNames}

DoGenerateSQL ==
    /\ inArg.op = "GenerateSQL"
    /\ outOp' = "GenerateSQL"
    /\ outVal' = GenerateSQL(cgen, inArg.tableName, inArg.col)
    /\ UNCHANGED <<inRaw, inExpected, outRes, validator, inArg, outErrs, cgen>>
    /\ UNCHANGED genVars
    /\ UNCHANGED inspectVars

DoGenerateAllSQL ==
    /\ inArg.op = "GenerateAllSQL"
    /\ outOp' = "GenerateAllSQL"
    /\ outVal' = GenerateAllSQL(cgen, inArg.table)
    /\ UNCHANGED <<inRaw, inExpected, outRes, validator, inArg, outErrs, cgen>>
    /\ UNCHANGED genVars
    /\ UNCHANGED inspectVars

DoCheckConstraintName ==
    /\ inArg.op = "CheckConstraintName"
    /\ outOp' = "CheckConstraintName"
    /\ outVal' = CheckConstraintName(inArg.table, inArg.column)
    /\ UNCHANGED <<inRaw, inExpected, outRes, validator, inArg, outErrs, cgen>>
    /\ UNCHANGED genVars
    /\ UNCHANGED inspectVars

InitConstraint ==
    /\ now = 1
    /\ gens = StartHeap
    /\ provs = <<>>
    /\ asked = <<>>
    /\ GenIdle
    /\ ParseIdle
    /\ validator = NewValidator(<<>>)
    /\ outErrs = <<>>
    /\ outVal = <<>>
    /\ InspectIdle
    /\ \/ \E opts \in ConstraintOptions :
             /\ cgen = NewBrandedConstraintGenerator(opts)
             /\ inArg \in GenerateForColumnArgs(opts) \cup GenerateSQLArgs(opts)
                            \cup GenerateAllSQLArgs(opts)
       \/ /\ cgen = NewBrandedConstraintGenerator(<<>>)
          /\ inArg \in CheckConstraintExprArgs \cup CheckConstraintNameArgs

NextConstraint ==
    \/ DoGenerateForColumn
    \/ DoCheckConstraintExpr
    \/ DoGenerateSQL
    \/ DoGenerateAllSQL
    \/ DoCheckConstraintName

SpecConstraint == InitConstraint /\ [][NextConstraint]_vars

(***************************************************************************)
(* ParseComment as a function of the comment.                              *)
(***************************************************************************)
\* comments put together from what precedes the marker, a marker, what
\* follows it, and the rest
CommentPrefixes ==
    {<<>>, <<"U", "s", "e", "r", " ", "t", "a", "s", "k", " ", "i", "d", "e", "n", "t", "i", "f", "i", "e", "r", " ">>, <<"b", "r", "a", "n", "d", "e", "d", "_", "i", "d", ":", "T", "S", " ">>}

CommentMarkers ==
    {CommentMarker, <<"b", "r", "a", "n", "d", "e", "d", "_", "i", "d">>, <<"B", "R", "A", "N", "D", "E", "D", "_", "I", "D", ":">>, <<>>}

CommentTails ==
    {NS_TASK, NS_EPIC, NS_LOWER, <<"T">>, <<"T", "S">>, <<"T", "1", "K">>,
     <<"T", "S", "K", "X">>, <<" ", "T", "S", "K">>, <<>>}

CommentSuffixes ==
    {<<>>, <<" ", "f", "o", "r", " ", "t", "r", "a", "c", "k", "i", "n", "g">>, <<" ", "b", "r", "a", "n", "d", "e", "d", "_", "i", "d", ":", "E", "P", "C">>}

COMMENT_REGULAR == <<"R", "e", "g", "u", "l", "a", "r", " ", "c", "o", "l", "u", "m", "n", " ", "c", "o", "m", "m", "e", "n", "t">>

Comments ==
    {pre \o mk \o tail \o suf :
        pre \in CommentPrefixes, mk \in CommentMarkers,
        tail \in CommentTails, suf \in CommentSuffixes}
        \cup {COMMENT_REGULAR}

ParseCommentArgs == {[op |-> "ParseComment", comment |-> c] : c \in Comments}

DoParseComment ==
    /\ inArg.op = "ParseComment"
    /\ outOp' = "ParseComment"
    /\ outVal' = ParseComment(inArg.comment)
    /\ UNCHANGED <<inRaw, inExpected, outRes, validator, inArg, outErrs, cgen>>
    /\ UNCHANGED genVars
    /\ UNCHANGED inspectVars

InitComment ==
    /\ now = 1
    /\ gens = StartHeap
    /\ provs = <<>>
    /\ asked = <<>>
    /\ GenIdle
    /\ ParseIdle
    /\ validator = NewValidator(<<>>)
    /\ outErrs = <<>>
    /\ cgen = NewBrandedConstraintGenerator(<<>>)
    /\ outVal = <<>>
    /\ InspectIdle
    /\ inArg \in ParseCommentArgs

NextComment == DoParseComment

SpecComment == InitComment /\ [][NextComment]_vars

(***************************************************************************)
(* Inspection as a state machine: Init draws the schema, the actions are   *)
(* the calls made on it in an inspect/apply cycle.                         *)
(***************************************************************************)
\* the calls of one behaviour
MaxOps == 3

NS_LONG == <<"T", "A", "S", "K">>

COMMENT_TSK == <<"b", "r", "a", "n", "d", "e", "d", "_", "i", "d", ":", "T", "S", "K">>

COMMENT_EPC == <<"b", "r", "a", "n", "d", "e", "d", "_", "i", "d", ":", "E", "P", "C">>

COMMENT_LOWER == <<"b", "r", "a", "n", "d", "e", "d", "_", "i", "d", ":", "t", "s", "k">>

COMMENT_EMBEDDED == <<"t", "a", "s", "k", " ", "b", "r", "a", "n", "d", "e", "d", "_", "i", "d", ":", "T", "S", "K", " ", "i", "d">>

InspectedTypes ==
    {NilType, StringType("character varying", 14),
     StringType("character varying", 255), StringType("char", 14),
     StringType("text", 0), IntegerType("integer"),
     BrandedID(NS_TASK), BrandedIDFromNamespace(NS_LOWER), BrandedID(NS_LONG)}

InspectedAttrs ==
    {<<>>, <<Comment(COMMENT_TSK)>>, <<Comment(COMMENT_REGULAR)>>,
     <<Comment(<<>>)>>, <<Comment(COMMENT_LOWER)>>,
     <<Comment(COMMENT_EMBEDDED)>>,
     <<Collation(COMMENT_TSK), Comment(COMMENT_EPC)>>,
     <<Comment(COMMENT_REGULAR), Comment(COMMENT_TSK)>>,
     <<Comment(COMMENT_EPC), Comment(COMMENT_TSK)>>}

InspectedColumns ==
    {InspectedColumn(ID_NAME, t, a) : t \in InspectedTypes, a \in InspectedAttrs}

\* the schema of TestConvertBrandedIDColumns, and one with a table of two
\* columns next to a table without columns
InspectedSchemas ==
    {<<Table(T_TASKS, <<c>>, <<>>)>> : c \in InspectedColumns}
    \cup {<<Table(T_TASKS, <<InspectedColumn(ID_NAME, StringType("character varying", 14), <<Comment(COMMENT_TSK)>>)>>, <<>>),
            Table(T_EPICS, <<InspectedColumn(ID_NAME, StringType("character varying", 14), <<Comment(COMMENT_EPC)>>)>>, <<>>)>>,
          <<Table(T_EPICS, <<>>, <<>>),
            Table(T_TASKS, <<InspectedColumn(ID_NAME, BrandedID(NS_TASK), <<>>),
                             InspectedColumn(N_EPIC_ID, StringType("char", 14), <<Comment(COMMENT_EPC)>>)>>, <<>>)>>}

\* the comments a caller sets between two inspections
SetCommentTexts == {COMMENT_EPC, COMMENT_REGULAR}

Called(op, ti, ci) ==
    /\ Len(history) < MaxOps
    /\ history' = Append(history, [op |-> op, table |-> ti, column |-> ci,
                                   before |-> inspected])
    /\ UNCHANGED <<validator, inArg, outErrs, cgen, outVal>>
    /\ UNCHANGED parseVars
    /\ UNCHANGED genVars

DoConvertBrandedIDColumns ==
    /\ inspected' = ConvertBrandedIDColumns(inspected)
    /\ Called("ConvertBrandedIDColumns", 0, 0)

DoConvertBrandedIDColumnsInTable(ti) ==
    /\ inspected' = [inspected EXCEPT ![ti] = ConvertBrandedIDColumnsInTable(@)]
    /\ Called("ConvertBrandedIDColumnsInTable", ti, 0)

\* c.Type.Type is read without a nil check: the call is made on columns
\* that have a type
DoSetBrandedIDComment(ti, ci) ==
    /\ inspected[ti].Columns[ci].Type.kind # "nil"
    /\ inspected' = [inspected EXCEPT ![ti].Columns[ci] = SetBrandedIDComment(@)]
    /\ Called("SetBrandedIDComment", ti, ci)

\* the column is stored: its type becomes the underlying storage type
DoUnderlying(ti, ci) ==
    /\ IsBrandedIDColumn(inspected[ti].Columns[ci])
    /\ inspected' = [inspected EXCEPT ![ti].Columns[ci].Type = Underlying(@)]
    /\ Called("Underlying", ti, ci)

DoSetComment(ti, ci, text) ==
    /\ inspected' = [inspected EXCEPT ![ti].Columns[ci] = SetComment(@, text)]
    /\ Called("SetComment", ti, ci)

InitInspect ==
    /\ now = 1
    /\ gens = StartHeap
    /\ provs = <<>>
    /\ asked = <<>>
    /\ GenIdle
    /\ ParseIdle
    /\ validator = NewValidator(<<>>)
    /\ inArg = [op |-> "none"]
    /\ outErrs = <<>>
    /\ cgen = NewBrandedConstraintGenerator(<<>>)
    /\ outVal = <<>>
    /\ inspected \in InspectedSchemas
    /\ history = <<>>

NextInspect ==
    \/ DoConvertBrandedIDColumns
    \/ \E ti \in DOMAIN inspected : DoConvertBrandedIDColumnsInTable(ti)
    \/ \E ti \in DOMAIN inspected : \E ci \in DOMAIN inspected[ti].Columns :
          DoSetBrandedIDComment(ti, ci)
    \/ \E ti \in DOMAIN inspected : \E ci \in DOMAIN inspected[ti].Columns :
          DoUnderlying(ti, ci)
    \/ \E ti \in DOMAIN inspected : \E ci \in DOMAIN inspected[ti].Columns :
          \E text \in SetCommentTexts : DoSetComment(ti, ci, text)

SpecInspect == InitInspect /\ [][NextInspect]_vars

(***************************************************************************)
(* The two directions of the config mapping as functions of their input:   *)
(* Init draws a config type or a schema type, the actions convert it, and  *)
(* convert the result of toSpec back.                                      *)
(***************************************************************************)
HclTypeNames == {TypeBrandedID, "varchar", "BRANDED_ID", ""}

HclAttrs ==
    {StringAttr("namespace", NS_TASK), StringAttr("namespace", NS_UNKNOWN),
     StringAttr("namespace", NS_LOWER), StringAttr("size", <<"1", "4">>),
     StringAttr("Namespace", NS_EPIC), IntAttr("namespace", <<"1", "4">>)}

HclTypes == {HclType(t, attrs) : t \in HclTypeNames, attrs \in SeqsUpTo(HclAttrs, 2)}

SchemaTypes ==
    {BrandedIDFromNamespace(ns) : ns \in Registry \cup {NS_UNKNOWN, NS_LOWER, NS_LONG}}
    \cup {StringType("varchar", 14), StringType("character varying", 14),
          IntegerType("integer")}

FromSpecArgs == {[op |-> "fromSpec", spec |-> t, type |-> NilType] : t \in HclTypes}

ToSpecArgs == {[op |-> "toSpec", spec |-> NilHclType, type |-> t] : t \in SchemaTypes}

TypeSpecStep(op, value) ==
    /\ outOp' = op
    /\ outVal' = value
    /\ UNCHANGED <<inRaw, inExpected, outRes, validator, inArg, outErrs, cgen>>
    /\ UNCHANGED genVars
    /\ UNCHANGED inspectVars

DoFromSpec ==
    /\ inArg.op = "fromSpec"
    /\ TypeSpecStep("fromSpec", fromSpec(inArg.spec))

DoToSpec ==
    /\ inArg.op = "toSpec"
    /\ TypeSpecStep("toSpec", toSpec(inArg.type))

\* the spec toSpec returned is handed to fromSpec
DoFromSpecBack ==
    /\ outOp = "toSpec"
    /\ outVal.err = ""
    /\ TypeSpecStep("fromSpec(toSpec)",
                    [spec |-> outVal.spec, back |-> fromSpec(outVal.spec)])

InitTypeSpec ==
    /\ now = 1
    /\ gens = StartHeap
    /\ provs = <<>>
    /\ asked = <<>>
    /\ GenIdle
    /\ ParseIdle
    /\ validator = NewValidator(<<>>)
    /\ outErrs = <<>>
    /\ cgen = NewBrandedConstraintGenerator(<<>>)
    /\ outVal = <<>>
    /\ InspectIdle
    /\ inArg \in FromSpecArgs \cup ToSpecArgs

NextTypeSpec == DoFromSpec \/ DoToSpec \/ DoFromSpecBack

SpecTypeSpec == InitTypeSpec /\ [][NextTypeSpec]_vars

(***************************************************************************)
(* Properties.                                                             *)
(***************************************************************************)
\* the identifiers Generator gi has returned, in issue order
Log(gi) == issued[gi]

\* ^[A-Z]{3}[0-9A-Za-z]{11}$
WellFormed(raw) ==
    /\ Len(raw) = 14
    /\ \A i \in 1..3 : raw[i] \in Range(Upper)
    /\ \A i \in 4..14 : raw[i] \in Range(Digits) \cup Range(Upper) \cup Range(Lower)

\* C1: whatever calls were made one after the other on one Generator, in any
\* mix of namespaces, the identifiers it returned carry pairwise distinct
\* payloads, and two of them in the same namespace differ in their text.
C1_DistinctPayloads ==
    \A gi \in DOMAIN issued : \A i, j \in DOMAIN Log(gi) :
        i # j =>
            /\ Log(gi)[i].id.payload # Log(gi)[j].id.payload
            /\ Namespace(Log(gi)[i].id) = Namespace(Log(gi)[j].id)
                   => String(Log(gi)[i].id) # String(Log(gi)[j].id)

\* a Generator has returned two identifiers of one namespace within one
\* millisecond and a third of another namespace
C1_Witness ==
    \E gi \in DOMAIN issued : \E i, j, k \in DOMAIN Log(gi) :
        /\ i < j
        /\ Log(gi)[i].ns = Log(gi)[j].ns
        /\ Log(gi)[i].tick = Log(gi)[j].tick
        /\ Log(gi)[k].ns # Log(gi)[i].ns

\* the callers that hold Generator gi's lock
Holders(gi) ==
    {c \in Procs : pc[c] \in {"read", "write"} /\ GeneratorOf(call[c].prov) = gi}

\* C2: with several callers inside Generate on one Generator, at most one of
\* them is between reading and writing (last tick, sequence) and it holds the
\* lock, and no two identifiers of the Generator share a (tick, sequence) pair
\* or a payload.
C2_ConcurrentDistinct ==
    \A gi \in DOMAIN gens :
        /\ Cardinality(Holders(gi)) <= 1
        /\ \A c \in Holders(gi) : gens[gi].mu = c
        /\ \A i, j \in DOMAIN Log(gi) :
               i # j =>
                   /\ <<Log(gi)[i].tick, Log(gi)[i].sequence>>
                          # <<Log(gi)[j].tick, Log(gi)[j].sequence>>
                   /\ Log(gi)[i].id.payload # Log(gi)[j].id.payload

\* one caller is about to write a slot of the millisecond of the Generator's
\* last identifier while another caller waits for the same Generator's lock
C2_Witness ==
    \E gi \in DOMAIN gens : \E c1, c2 \in Procs :
        /\ pc[c1] = "write" /\ GeneratorOf(call[c1].prov) = gi
        /\ pc[c2] = "lock" /\ GeneratorOf(call[c2].prov) = gi
        /\ Log(gi) # <<>>
        /\ call[c1].t = Log(gi)[Len(Log(gi))].tick

\* C3: the payloads one Generator returns are strictly increasing in issue
\* order, whatever the clock does, also when it is set back between or during
\* calls.
C3_StrictlyIncreasing ==
    \A gi \in DOMAIN issued : \A i \in 1..(Len(Log(gi)) - 1) :
        BigLess(Log(gi)[i].id.payload, Log(gi)[i + 1].id.payload)

\* an identifier was returned by a call that read a clock set back below the
\* Generator's last tick (the sequence was not exhausted) and read it again
C3_Witness ==
    \E gi \in DOMAIN issued : \E i \in 2..Len(Log(gi)) :
        /\ Log(gi)[i].afterRegress
        /\ ~Log(gi)[i - 1].afterRegress
        /\ Log(gi)[i].waited
        /\ Log(gi)[i].prevSequence < MaxSeq

\* the step is a clock reading of caller c
IsClockReading(c) == pc[c] = "read" /\ call'[c] # call[c]

\* the log keeps the sequence within its budget and starts a millisecond at 0
SlotsInBudget ==
    \A gi \in DOMAIN issued : \A i \in DOMAIN Log(gi) :
        LET e == Log(gi)[i]
        IN  /\ e.sequence \in 0..MaxSeq
            /\ e.tick = e.prevTick => e.sequence = e.prevSequence + 1
            /\ e.tick # e.prevTick => e.tick > e.prevTick /\ e.sequence = 0
            /\ \A j \in DOMAIN Log(gi) :
                   j # i => <<e.tick, e.sequence>>
                                # <<Log(gi)[j].tick, Log(gi)[j].sequence>>

\* C4: a call that finds the sequence at its maximum reads the clock again as
\* long as the clock shows the Generator's last millisecond, goes on as soon
\* as a reading shows a later one, and then starts that millisecond at
\* sequence 0; no (tick, sequence) pair is used twice.
C4_ExhaustionWaits ==
    [][/\ \A c \in Procs :
              LET g == gens[GeneratorOf(call[c].prov)]
              IN  (IsClockReading(c) /\ g.sequence = MaxSeq) =>
                      /\ now = g.lastTick =>
                             pc'[c] = "read" /\ call'[c].waited
                      /\ now > g.lastTick =>
                             pc'[c] = "write" /\ call'[c].t = now
       /\ SlotsInBudget']_vars

\* an identifier was returned, at sequence 0 of a later millisecond, by a call
\* that found the sequence exhausted and had to read the clock again, on a
\* Generator whose last tick the clock never went below
C4_Witness ==
    \E gi \in DOMAIN issued : \E i \in DOMAIN Log(gi) :
        /\ gi \notin sawRegress
        /\ Log(gi)[i].waited
        /\ Log(gi)[i].prevSequence = MaxSeq
        /\ Log(gi)[i].tick > Log(gi)[i].prevTick
        /\ Log(gi)[i].sequence = 0

\* C5: two providers constructed with distinct worker ids of 0..1023 never
\* return the same payload.
C5_WorkersDisjoint ==
    \A p1, p2 \in DOMAIN provs :
        (/\ asked[p1] # asked[p2]
         /\ asked[p1] \in 0..1023
         /\ asked[p2] \in 0..1023) =>
            \A i \in DOMAIN Log(GeneratorOf(p1)), j \in DOMAIN Log(GeneratorOf(p2)) :
                Log(GeneratorOf(p1))[i].id.payload
                    # Log(GeneratorOf(p2))[j].id.payload

\* two providers constructed with distinct worker ids have each returned an
\* identifier at the same tick and sequence
C5_Witness ==
    \E p1, p2 \in DOMAIN provs :
        /\ asked[p1] # asked[p2]
        /\ \E i \in DOMAIN Log(GeneratorOf(p1)), j \in DOMAIN Log(GeneratorOf(p2)) :
               /\ Log(GeneratorOf(p1))[i].tick = Log(GeneratorOf(p2))[j].tick
               /\ Log(GeneratorOf(p1))[i].sequence
                      = Log(GeneratorOf(p2))[j].sequence

\* C6: Parse of a string matching ^[A-Z]{3}[0-9A-Za-z]{11}$ succeeds and the
\* identifier's String() is the string itself, whether or not the namespace
\* is registered and up to the top of the 11-character base-62 range.
C6_ParseRoundTrip ==
    (outOp = "Parse" /\ WellFormed(inRaw)) =>
        /\ outRes.err = NoErr
        /\ String(outRes.id) = inRaw

\* Parse has accepted the top of the range under an unregistered namespace
C6_Witness ==
    /\ outOp = "Parse"
    /\ inRaw = NS_UNKNOWN \o PAYLOAD_MAX
    /\ outRes.err = NoErr
    /\ ~IsValidNamespace(Namespace(outRes.id))

\* C7: Parse fails with the length error on a string that is not 14
\* characters long, and with the format error on a string of 14 characters
\* whose first 3 are not all uppercase letters or whose last 11 are not all
\* of [0-9A-Za-z]; a failure returns the zero identifier.
C7_ParseErrors ==
    outOp = "Parse" =>
        /\ Len(inRaw) # 14 => outRes.err = ErrLength /\ IsZero(outRes.id)
        /\ (Len(inRaw) = 14 /\ ~WellFormed(inRaw)) =>
               outRes.err = ErrFormat /\ IsZero(outRes.id)

\* Parse has refused, for its format, 14 characters that are alphanumeric
\* throughout but do not start with three uppercase letters
C7_Witness ==
    /\ outOp = "Parse"
    /\ Len(inRaw) = 14
    /\ \A i \in 1..14 : IsAlnum(inRaw[i])
    /\ outRes.err = ErrFormat

\* C8: ParseWithNamespace fails with the error of Parse when Parse fails;
\* when Parse succeeds it returns what Parse returns if the first 3
\* characters are the expected namespace, and otherwise fails with the
\* namespace error naming the expected and the actual namespace.
C8_ParseWithNamespace ==
    outOp = "ParseWithNamespace" =>
        LET r == ProviderParse(inRaw)
        IN  /\ r.err # NoErr => outRes.err = r.err
            /\ (r.err = NoErr /\ SubSeq(inRaw, 1, 3) = inExpected) =>
                   outRes.err = NoErr /\ outRes.id = r.id
            /\ (r.err = NoErr /\ SubSeq(inRaw, 1, 3) # inExpected) =>
                   /\ outRes.err.kind = "namespace"
                   /\ outRes.err.expected = inExpected
                   /\ outRes.err.actual = SubSeq(inRaw, 1, 3)
            /\ (~WellFormed(inRaw)) => outRes.err \in {ErrLength, ErrFormat}

\* ParseWithNamespace has refused a well-formed identifier of another
\* namespace
C8_Witness ==
    /\ outOp = "ParseWithNamespace"
    /\ inRaw = NS_TASK \o PAYLOAD_TASK
    /\ inExpected = NS_EPIC
    /\ outRes.err = ErrNamespace(NS_EPIC, NS_TASK)

\* C9: Parse of the text of an identifier returned by Generate(N) succeeds,
\* renders the same text again and has namespace N.
C9_GeneratedRoundTrip ==
    \A gi \in DOMAIN issued : \A i \in DOMAIN Log(gi) :
        LET r == ProviderParse(String(Log(gi)[i].id))
        IN  /\ r.err = NoErr
            /\ String(r.id) = String(Log(gi)[i].id)
            /\ Namespace(r.id) = Log(gi)[i].ns

\* identifiers of two namespaces have been returned
C9_Witness ==
    \E gi \in DOMAIN issued : \E i, j \in DOMAIN Log(gi) :
        /\ Log(gi)[i].ns = NS_TASK
        /\ Log(gi)[j].ns = NS_UNKNOWN

\* C10: an identifier returned by Generate for a namespace of three uppercase
\* letters is not the zero identifier, its text is 14 characters long, and
\* IsValid accepts it.
C10_GeneratedValid ==
    \A gi \in DOMAIN issued : \A i \in DOMAIN Log(gi) :
        /\ ~IsZero(Log(gi)[i].id)
        /\ Len(String(Log(gi)[i].id)) = 14
        /\ ProviderIsValid(String(Log(gi)[i].id))

\* an identifier of an unregistered namespace has been returned, at a
\* sequence above 0 and after the clock was set back
C10_Witness ==
    \E gi \in DOMAIN issued : \E i \in DOMAIN Log(gi) :
        /\ ~IsValidNamespace(Log(gi)[i].ns)
        /\ Log(gi)[i].sequence > 0
        /\ Log(gi)[i].afterRegress

C13_ValidateValue ==
    outOp = "ValidateValue" =>
        ((outRes.err = NoErr) <=>
            /\ Len(inRaw) = 14
            /\ WellFormed(inRaw)
            /\ (inExpected = <<>> \/ SubSeq(inRaw, 1, 3) = inExpected))

\* a strict Validator has accepted a well-formed value of an unregistered
\* namespace, nothing being expected
C13_Witness ==
    /\ outOp = "ValidateValue"
    /\ validator.strict
    /\ inExpected = <<>>
    /\ inRaw = NS_UNKNOWN \o PAYLOAD_TASK
    /\ outRes.err = NoErr

\* the pairs of a foreign key whose referencing column is branded and whose
\* referenced column is not, or is branded with another namespace
OffendingPairs(fk) ==
    {i \in (DOMAIN fk.Columns) \cap (DOMAIN fk.RefColumns) :
        /\ fk.Columns[i].Type.kind = "BrandedIDType"
        /\ \/ fk.RefColumns[i].Type.kind # "BrandedIDType"
           \/ fk.RefColumns[i].Type.Namespace # fk.Columns[i].Type.Namespace}

\* C14: ValidateForeignKey returns one error for every offending column pair
\* and no other error, in the order of the pairs, each naming the pair's
\* referencing column and carrying the foreign key's symbol.
C14_ForeignKeyErrors ==
    outOp = "ValidateForeignKey" =>
        LET fk == inArg.fk
        IN  /\ Len(outErrs) = Cardinality(OffendingPairs(fk))
            /\ \A k \in DOMAIN outErrs : outErrs[k].FK = fk.Symbol
            /\ \A i \in OffendingPairs(fk) :
                   outErrs[Cardinality({j \in OffendingPairs(fk) : j <= i})]
                       .Message[2] = fk.Columns[i].Name

\* a foreign key of two column pairs, one referencing a column that is not
\* branded and one a column of another namespace, has got two errors
C14_Witness ==
    /\ outOp = "ValidateForeignKey"
    /\ Len(outErrs) = 2
    /\ outErrs[1].Message[1] # outErrs[2].Message[1]
    /\ outErrs[1].FK = FK_BAD

\* the unknown-namespace errors of a result
UnknownNamespaceAt(errs) ==
    {k \in DOMAIN errs : errs[k].Message[1] = "unknown namespace"}

\* C15: ValidateColumn reports an unknown-namespace error, once and tagged
\* with the table and the column, exactly when the column is branded, the
\* Validator is strict and the namespace is not registered; a Validator made
\* without options is strict; a column that is not branded gets no error.
C15_UnknownNamespace ==
    /\ validator = NewValidator(<<>>) => validator.strict
    /\ outOp = "ValidateColumn" =>
        LET col == inArg.col
        IN  /\ (UnknownNamespaceAt(outErrs) # {}) <=>
                   /\ col.Type.kind = "BrandedIDType"
                   /\ validator.strict
                   /\ col.Type.Namespace \notin Registry
            /\ Cardinality(UnknownNamespaceAt(outErrs)) <= 1
            /\ \A k \in UnknownNamespaceAt(outErrs) :
                   /\ outErrs[k].Table = inArg.tableName
                   /\ outErrs[k].Column = col.Name
            /\ col.Type.kind # "BrandedIDType" => outErrs = <<>>

\* the default Validator has reported the unregistered namespace of a column
C15_Witness ==
    /\ outOp = "ValidateColumn"
    /\ validator = NewValidator(<<>>)
    /\ inArg.col.Type.Namespace = NS_UNKNOWN
    /\ Len(outErrs) = 1
    /\ outErrs[1].Message[1] = "unknown namespace"
    /\ outErrs[1].Table = inArg.tableName

RECURSIVE ConcatAll(_)
ConcatAll(seqs) ==
    IF seqs = <<>> THEN <<>> ELSE Head(seqs) \o ConcatAll(Tail(seqs))

RECURSIVE SumOfLens(_)
SumOfLens(seqs) ==
    IF seqs = <<>> THEN 0 ELSE Len(Head(seqs)) + SumOfLens(Tail(seqs))

\* what each column check and each foreign key check of a table returns on
\* its own: the columns in order, then the foreign keys in order
ChecksOfTable(v, t) ==
    [i \in DOMAIN t.Columns |-> ValidateColumn(v, t.Name, t.Columns[i])]
        \o [i \in DOMAIN t.ForeignKeys |-> ValidateForeignKey(v, t.ForeignKeys[i])]

ChecksOfSchema(v, s) ==
    ConcatAll([i \in DOMAIN s.Tables |-> ChecksOfTable(v, s.Tables[i])])

\* C16: the result of ValidateSchema is the concatenation, table by table,
\* of the table's column errors in column order and then its foreign key
\* errors in foreign key order; their number is the sum of what the single
\* checks return.
C16_SchemaAccumulates ==
    outOp = "ValidateSchema" =>
        /\ outErrs = ConcatAll(ChecksOfSchema(validator, inArg.s))
        /\ Len(outErrs) = SumOfLens(ChecksOfSchema(validator, inArg.s))

\* a schema of two tables has got a foreign key error of its first table
\* followed by a column error of its second
C16_Witness ==
    /\ outOp = "ValidateSchema"
    /\ Len(inArg.s.Tables) = 2
    /\ \E k \in 1..(Len(outErrs) - 1) :
          /\ outErrs[k].FK # <<>>
          /\ outErrs[k + 1].Column # <<>>
          /\ outErrs[1].Column # <<>>

\* the naming warnings of a result
NamingWarningAt(errs) ==
    {k \in DOMAIN errs : errs[k].Message[1] = "recommended naming"}

\* the name the convention admits for a column of the given role
ConventionalName(name, ns, primary) ==
    IF primary
    THEN name = <<"i", "d">>
    ELSE \/ name = ToLower(ns) \o <<"_", "i", "d">>
         \/ /\ Len(name) >= 3
            /\ SubSeq(name, Len(name) - 2, Len(name)) = <<"_", "i", "d">>

\* C17: with the naming check on, a branded column gets exactly one naming
\* warning unless it is primary and named id, or not primary and named
\* <namespace in lowercase>_id or anything ending in _id; with the check off,
\* and for a column that is not branded, there is no naming warning.
C17_NamingByRole ==
    outOp = "ValidateColumn" =>
        LET col == inArg.col
            n   == Cardinality(NamingWarningAt(outErrs))
        IN  IF validator.checkNaming /\ col.Type.kind = "BrandedIDType"
            THEN n = (IF ConventionalName(col.Name, col.Type.Namespace,
                                          inArg.primary)
                      THEN 0 ELSE 1)
            ELSE n = 0

TXT_MATCHES == <<" ", "~", " ", "'", "^">>

TXT_PAYLOAD == <<"[", "0", "-", "9", "A", "-", "Z", "a", "-", "z", "]", "{", "1", "1", "}", "$", "'">>

TXT_NULL_OR == <<" ", "I", "S", " ", "N", "U", "L", "L", " ", "O", "R", " ">>

\* col ~ '^XXX[0-9A-Za-z]{11}$'
ExprOf(col, ns) == col \o TXT_MATCHES \o ns \o TXT_PAYLOAD

\* C18: the constraint generated for a branded column has the expression
\* col ~ '^XXX[0-9A-Za-z]{11}$' when the column is not nullable and
\* col IS NULL OR col ~ '^XXX[0-9A-Za-z]{11}$' when it is; an enabled
\* generator generates one for every branded column; a column that is not
\* branded gets none; CheckConstraintExpr returns the first form.
C18_ConstraintExpr ==
    /\ outOp = "GenerateForColumn" =>
        LET col == inArg.col
        IN  /\ col.Type.kind # "BrandedIDType" => outVal.nil
            /\ (col.Type.kind = "BrandedIDType" /\ cgen.enabled) => ~outVal.nil
            /\ ~outVal.nil =>
                   outVal.Expr =
                       IF col.Null
                       THEN col.Name \o TXT_NULL_OR
                                \o ExprOf(col.Name, col.Type.Namespace)
                       ELSE ExprOf(col.Name, col.Type.Namespace)
    /\ outOp = "CheckConstraintExpr" => outVal = ExprOf(inArg.column, inArg.ns)

\* a constraint has been generated for a nullable column
C18_Witness ==
    /\ outOp = "GenerateForColumn"
    /\ inArg.col.Null
    /\ inArg.col.Type.Namespace = NS_EPIC
    /\ ~outVal.nil
    /\ SubSeq(outVal.Expr, 1, Len(N_EPIC_ID) + Len(TXT_NULL_OR))
           = N_EPIC_ID \o TXT_NULL_OR

TXT_CHK == <<"c", "h", "k", "_">>

TXT_BRANDED == <<"_", "b", "r", "a", "n", "d", "e", "d">>

\* the positions of the format options among the options
FormatOptionsAt(opts) == {k \in DOMAIN opts : opts[k].field = "constraintFmt"}

\* C19: the generated constraint is named chk_<table>_<column>_branded when
\* the generator was made without a format option, and otherwise the format
\* given with its first verb replaced by the table name and its second by
\* the column name; namespace and nullability do not enter.
C19_ConstraintName ==
    (outOp = "GenerateForColumn" /\ ~outVal.nil) =>
        IF FormatOptionsAt(inArg.opts) = {}
        THEN outVal.Name = TXT_CHK \o inArg.tableName \o <<"_">>
                               \o inArg.col.Name \o TXT_BRANDED
        ELSE \A k \in FormatOptionsAt(inArg.opts) : \A pieces \in FormatPieces :
                 inArg.opts[k].format
                     = pieces[1] \o <<"%", "s">> \o pieces[2] \o <<"%", "s">> \o pieces[3]
                 => outVal.Name = pieces[1] \o inArg.tableName \o pieces[2]
                                      \o inArg.col.Name \o pieces[3]

\* a generator made with the format branded_%s_%s_check has named a
\* constraint branded_tasks_id_check
C19_Witness ==
    /\ outOp = "GenerateForColumn"
    /\ FormatOptionsAt(inArg.opts) # {}
    /\ ~outVal.nil
    /\ outVal.Name = <<"b", "r", "a", "n", "d", "e", "d", "_", "t", "a", "s", "k", "s", "_", "i", "d", "_", "c", "h", "e", "c", "k">>

\* branded_id: followed by three uppercase letters stands at position i
MarkerAt(comment, i) ==
    /\ i + 13 <= Len(comment)
    /\ SubSeq(comment, i, i + 10) = <<"b", "r", "a", "n", "d", "e", "d", "_", "i", "d", ":">>
    /\ \A j \in (i + 11)..(i + 13) : comment[j] \in Range(Upper)

MarkersOf(comment) == {i \in DOMAIN comment : MarkerAt(comment, i)}

\* C20: ParseComment returns (ns, true) exactly when the comment contains,
\* anywhere, branded_id: followed by three uppercase letters, ns being the
\* three letters of the leftmost such place; otherwise it returns the empty
\* namespace and false.
C20_ParseComment ==
    outOp = "ParseComment" =>
        LET comment == inArg.comment
        IN  /\ outVal.ok <=> (MarkersOf(comment) # {})
            /\ ~outVal.ok => outVal.ns = <<>>
            /\ outVal.ok =>
                   \E i \in MarkersOf(comment) :
                       /\ \A j \in MarkersOf(comment) : i <= j
                       /\ outVal.ns = SubSeq(comment, i + 11, i + 13)

\* ParseComment has returned the namespace of the first of two markers with
\* different namespaces, neither at the start of the comment
C20_Witness ==
    /\ outOp = "ParseComment"
    /\ outVal.ok
    /\ 1 \notin MarkersOf(inArg.comment)
    /\ \E i, j \in MarkersOf(inArg.comment) :
          /\ i < j
          /\ SubSeq(inArg.comment, j + 11, j + 13) # outVal.ns

(***************************************************************************)
(* Inspection.                                                             *)
(***************************************************************************)
\* the inspected schema after the k-th call of the history
After(k) == IF k < Len(history) THEN history[k + 1].before ELSE inspected

\* the column a call of the history was made on, before the call
ColumnBefore(k) == history[k].before[history[k].table].Columns[history[k].column]

\* calls k, k+1, k+2 are an inspect/apply cycle on one branded column:
\* SetBrandedIDComment, the replacement of its type by the underlying
\* storage type, ConvertBrandedIDColumns
CycleAt(k) ==
    /\ k + 2 <= Len(history)
    /\ history[k].op = "SetBrandedIDComment"
    /\ IsBrandedIDColumn(ColumnBefore(k))
    /\ history[k + 1].op = "Underlying"
    /\ history[k + 1].table = history[k].table
    /\ history[k + 1].column = history[k].column
    /\ history[k + 2].op = "ConvertBrandedIDColumns"

\* the column of the cycle that starts at k, after the cycle
CycleResult(k) == After(k + 2)[history[k].table].Columns[history[k].column]

\* exactly three uppercase ASCII letters
IsThreeUpper(ns) == Len(ns) = NamespaceLen /\ \A i \in DOMAIN ns : IsUpper(ns[i])

\* C21 as stated: after SetBrandedIDComment and the replacement of the type
\* by its underlying storage type, ConvertBrandedIDColumns restores a
\* BrandedIDType with the namespace N the column had, whatever N is, and
\* ParseComment(FormatComment(N)) = (N, true)
C21_RoundTripAnyNamespace ==
    \A k \in DOMAIN history :
        CycleAt(k) =>
            LET N == ColumnBefore(k).Type.Namespace
            IN  /\ CycleResult(k).Type = BrandedIDFromNamespace(N)
                /\ ParseComment(FormatComment(N)) = [ns |-> N, ok |-> TRUE]

\* C21 amended: for every branded column whose namespace N is exactly three
\* uppercase ASCII letters, after SetBrandedIDComment and the replacement of
\* the type by its underlying storage type, ConvertBrandedIDColumns restores
\* a BrandedIDType with namespace exactly N, and
\* ParseComment(FormatComment(N)) = (N, true)
C21_RoundTrip ==
    \A k \in DOMAIN history :
        CycleAt(k) /\ IsThreeUpper(ColumnBefore(k).Type.Namespace) =>
            LET N == ColumnBefore(k).Type.Namespace
            IN  /\ CycleResult(k).Type = BrandedIDFromNamespace(N)
                /\ ParseComment(FormatComment(N)) = [ns |-> N, ok |-> TRUE]

\* a cycle on a column branded TSK whose comment named EPC before has been
\* completed and the column is branded TSK again
C21_Witness ==
    /\ Len(history) = 3
    /\ CycleAt(1)
    /\ ColumnBefore(1).Type = BrandedID(NS_TASK)
    /\ getComment(ColumnBefore(1)) = COMMENT_EPC
    /\ After(2)[history[1].table].Columns[history[1].column].Type
          = StringType("character varying", 14)
    /\ CycleResult(1).Type = BrandedID(NS_TASK)

\* the k-th call of the history ran convertBrandedIDColumn
IsConvertCall(k) ==
    history[k].op \in {"ConvertBrandedIDColumns", "ConvertBrandedIDColumnsInTable"}

\* the places <<table, column>> of the columns of a schema
Positions(s) ==
    UNION {{<<ti, ci>> : ci \in DOMAIN s[ti].Columns} : ti \in DOMAIN s}

ColumnAt(s, p) == s[p[1]].Columns[p[2]]

\* one of the column's comments carries branded_id: and three uppercase
\* letters
CarriesMarker(c) ==
    \E i \in DOMAIN c.Attrs :
        c.Attrs[i].kind = "Comment" /\ MarkersOf(c.Attrs[i].Text) # {}

\* the names of the variable-length character types
VaryingTypes == {"character varying", "varchar"}

\* a has been made from b by branding it: nothing but the type differs
BrandedFrom(a, b) ==
    /\ IsBrandedIDType(a.Type)
    /\ a = [b EXCEPT !.Type = a.Type]

FirstCommentText(c) ==
    LET I == {i \in DOMAIN c.Attrs : c.Attrs[i].kind = "Comment"}
    IN  IF I = {} THEN <<>>
        ELSE c.Attrs[CHOOSE i \in I : \A j \in I : i <= j].Text

NamesNamespace(text) == MarkersOf(text) # {}

\* the three letters after the leftmost marker of a text that has one
NamespaceNamed(text) ==
    LET i == CHOOSE m \in MarkersOf(text) : \A n \in MarkersOf(text) : m <= n
    IN  SubSeq(text, i + 11, i + 13)

\* call j changes the comment of a column whose comment names a namespace
IsCommentChange(j) ==
    /\ history[j].op = "SetComment"
    /\ NamesNamespace(FirstCommentText(ColumnBefore(j)))

\* the schema Init drew
InputSchema == IF history = <<>> THEN inspected ELSE history[1].before

\* C28: (1) a second ConvertBrandedIDColumns, made at once or after comments
\* that name a namespace were changed, changes nothing; (2) no conversion
\* changes a column whose type is a BrandedIDType already; (3) when the
\* schema only went through conversions and changes of comments, every
\* column has the type of the input, or is a BrandedIDType whose namespace
\* is the one the first Comment attribute named at the conversion that
\* branded it
C28_Idempotent ==
    /\ \A k, m \in DOMAIN history :
          /\ k < m
          /\ history[k].op = "ConvertBrandedIDColumns"
          /\ history[m].op = "ConvertBrandedIDColumns"
          /\ \A j \in (k + 1)..(m - 1) : IsCommentChange(j)
          => After(m) = history[m].before
    /\ \A k \in DOMAIN history :
          IsConvertCall(k) =>
              \A p \in Positions(history[k].before) :
                  IsBrandedIDType(ColumnAt(history[k].before, p).Type) =>
                      ColumnAt(After(k), p) = ColumnAt(history[k].before, p)
    /\ (\A k \in DOMAIN history : IsConvertCall(k) \/ history[k].op = "SetComment")
          => \A p \in Positions(InputSchema) :
                \/ ColumnAt(inspected, p).Type = ColumnAt(InputSchema, p).Type
                \/ \E k \in DOMAIN history :
                      /\ IsConvertCall(k)
                      /\ ColumnAt(history[k].before, p).Type = ColumnAt(InputSchema, p).Type
                      /\ NamesNamespace(FirstCommentText(ColumnAt(history[k].before, p)))
                      /\ ColumnAt(inspected, p).Type =
                            BrandedIDFromNamespace(NamespaceNamed(
                                FirstCommentText(ColumnAt(history[k].before, p))))

\* a column was branded TSK by a first conversion, its comment was changed
\* to name EPC, and after a second conversion it is branded TSK still
C28_Witness ==
    /\ Len(history) = 3
    /\ history[1].op = "ConvertBrandedIDColumns"
    /\ history[2].op = "SetComment"
    /\ history[3].op = "ConvertBrandedIDColumns"
    /\ ColumnBefore(2).Type = BrandedID(NS_TASK)
    /\ ColumnAt(InputSchema, <<history[2].table, history[2].column>>).Type
          = StringType("character varying", 14)
    /\ FirstCommentText(ColumnAt(inspected, <<history[2].table, history[2].column>>))
          = COMMENT_EPC
    /\ ColumnAt(inspected, <<history[2].table, history[2].column>>).Type
          = BrandedID(NS_TASK)

(***************************************************************************)
(* The config mapping.                                                     *)
(***************************************************************************)
\* C23: for every registered namespace N, toSpec of a BrandedIDType with
\* namespace N yields a type named branded_id with exactly one attribute,
\* namespace = N, and fromSpec of that result succeeds and yields a
\* BrandedIDType with namespace N
C23_ConfigRoundTrip ==
    /\ outOp = "toSpec" /\ IsBrandedIDType(inArg.type)
          /\ inArg.type.Namespace \in Registry
          => /\ outVal.err = ""
             /\ ~outVal.spec.nil
             /\ outVal.spec.T = "branded_id"
             /\ Len(outVal.spec.Attrs) = 1
             /\ outVal.spec.Attrs[1].K = "namespace"
             /\ outVal.spec.Attrs[1].kind = "string"
             /\ outVal.spec.Attrs[1].V = inArg.type.Namespace
    /\ outOp = "fromSpec(toSpec)" /\ inArg.type.Namespace \in Registry
          => /\ outVal.back.err = ""
             /\ outVal.back.type.kind = "BrandedIDType"
             /\ outVal.back.type.Namespace = inArg.type.Namespace

\* the type branded EPC has gone to a config type and back
C23_Witness ==
    /\ outOp = "fromSpec(toSpec)"
    /\ inArg.type = BrandedIDFromNamespace(NS_EPIC)
    /\ outVal.spec.Attrs = <<StringAttr("namespace", NS_EPIC)>>
    /\ outVal.back.type = BrandedIDFromNamespace(NS_EPIC)

HasNamespaceAttr(attrs) == \E i \in DOMAIN attrs : attrs[i].K = "namespace"

FirstNamespaceAttr(attrs) ==
    attrs[CHOOSE i \in DOMAIN attrs :
            /\ attrs[i].K = "namespace"
            /\ \A j \in 1..(i - 1) : attrs[j].K # "namespace"]

\* C24: fromSpec returns an error and no type when the type name is not
\* branded_id (the wrong-type-name error, whatever the attributes are),
\* else when there is no namespace attribute (the missing-attribute error),
\* else when the namespace is not in the registry (the invalid-namespace
\* error); toSpec returns an error and no spec for every type that is not a
\* BrandedIDType
C24_ConfigErrors ==
    /\ outOp = "fromSpec" =>
          LET t == inArg.spec
          IN  /\ t.T # "branded_id" =>
                    outVal = [type |-> NilType, err |-> ERR_WRONG_TYPE_NAME]
              /\ t.T = "branded_id" /\ ~HasNamespaceAttr(t.Attrs) =>
                    outVal = [type |-> NilType, err |-> ERR_MISSING_NAMESPACE]
              /\ t.T = "branded_id" /\ HasNamespaceAttr(t.Attrs)
                    /\ FirstNamespaceAttr(t.Attrs).kind = "string"
                    /\ FirstNamespaceAttr(t.Attrs).V \notin Registry =>
                    outVal = [type |-> NilType, err |-> ERR_INVALID_NAMESPACE]
              /\ outVal.err # "" => outVal.type = NilType
    /\ outOp = "toSpec" /\ inArg.type.kind # "BrandedIDType" =>
          outVal.err # "" /\ outVal.spec.nil

\* fromSpec has refused a type for its name, varchar, although its namespace
\* attribute is not a registered namespace either
C24_Witness ==
    /\ outOp = "fromSpec"
    /\ inArg.spec = HclType("varchar", <<StringAttr("namespace", NS_UNKNOWN)>>)
    /\ outVal.err = ERR_WRONG_TYPE_NAME

(***************************************************************************)
(* Default providers.                                                      *)
(***************************************************************************)
\* the places <<Generator, index>> of the identifiers issued so far
IssuedPlaces ==
    UNION {{<<gi, i>> : i \in DOMAIN issued[gi]} : gi \in DOMAIN issued}

\* C25: every provider DefaultProvider() returned is backed by the one
\* default Generator, which has worker id 0 and is the only Generator there
\* is (no call makes another), and the identifiers generated through the
\* default providers, in any interleaving, carry pairwise distinct payloads
C25_DefaultProviderShared ==
    /\ Len(gens) = 1
    /\ gens[DefaultGenerator].worker = 0
    /\ \A pr \in DOMAIN provs : GeneratorOf(pr) = DefaultGenerator
    /\ \A p, q \in IssuedPlaces :
          p # q => issued[p[1]][p[2]].id.payload # issued[q[1]][q[2]].id.payload

\* two default providers have each returned an identifier within the same
\* millisecond
C25_Witness ==
    /\ Len(provs) = 2
    /\ \E p, q \in IssuedPlaces :
          /\ issued[p[1]][p[2]].prov = 1
          /\ issued[q[1]][q[2]].prov = 2
          /\ issued[p[1]][p[2]].tick = issued[q[1]][q[2]].tick

(***************************************************************************)
(* Constraint names and statements.                                        *)
(***************************************************************************)
TXT_FORMAT == <<"_", "f", "o", "r", "m", "a", "t">>

\* the name the default constraint generator gives the check of a branded
\* column of that name in that table
DefaultGeneratedName(table, column) ==
    GenerateForColumn(NewBrandedConstraintGenerator(<<>>), table,
                      NewColumn(column, BrandedIDFromNamespace(NS_TASK), FALSE, <<>>)).Name

\* C26 as stated: CheckConstraintName(table, column) is the name the
\* constraint generator produces by default for that table and column,
\* chk_<table>_<column>_branded
C26_SameAsGenerator ==
    outOp = "CheckConstraintName" =>
        /\ outVal = DefaultGeneratedName(inArg.table, inArg.column)
        /\ outVal = TXT_CHK \o inArg.table \o <<"_">> \o inArg.column \o TXT_BRANDED

\* C26 amended: CheckConstraintName(table, column) is
\* chk_<table>_<column>_format; the name the constraint generator produces
\* by default for that table and column is chk_<table>_<column>_branded,
\* another name
C26_ConstraintNameFormat ==
    outOp = "CheckConstraintName" =>
        /\ outVal = TXT_CHK \o inArg.table \o <<"_">> \o inArg.column \o TXT_FORMAT
        /\ DefaultGeneratedName(inArg.table, inArg.column)
              = TXT_CHK \o inArg.table \o <<"_">> \o inArg.column \o TXT_BRANDED
        /\ outVal # DefaultGeneratedName(inArg.table, inArg.column)

\* CheckConstraintName("tasks", "id") has returned chk_tasks_id_format
C26_Witness ==
    /\ outOp = "CheckConstraintName"
    /\ inArg.table = T_TASKS
    /\ inArg.column = ID_NAME
    /\ outVal = <<"c", "h", "k", "_", "t", "a", "s", "k", "s", "_", "i", "d", "_", "f", "o", "r", "m", "a", "t">>

\* the non-empty members of a list of strings, in order
RECURSIVE NonEmptyFrom(_, _)
NonEmptyFrom(strs, i) ==
    IF i > Len(strs) THEN <<>>
    ELSE (IF strs[i] = <<>> THEN <<>> ELSE <<strs[i]>>) \o NonEmptyFrom(strs, i + 1)

\* C29: GenerateAllSQL(t) is the list, in column order, of the non-empty
\* results of GenerateSQL(t.Name, c) over the columns c of t; it has one
\* statement per branded column and none for the others, and with
\* constraint generation disabled it is empty, as is every GenerateSQL
C29_AllSQL ==
    /\ outOp = "GenerateAllSQL" =>
          LET t     == inArg.table
              each  == [i \in DOMAIN t.Columns |-> GenerateSQL(cgen, t.Name, t.Columns[i])]
              brand == {i \in DOMAIN t.Columns : t.Columns[i].Type.kind = "BrandedIDType"}
          IN  /\ outVal = NonEmptyFrom(each, 1)
              /\ cgen.enabled => Len(outVal) = Cardinality(brand)
              /\ cgen.enabled =>
                    \A i \in DOMAIN t.Columns : (each[i] # <<>>) <=> (i \in brand)
              /\ ~cgen.enabled => outVal = <<>>
    /\ outOp = "GenerateSQL" /\ ~cgen.enabled => outVal = <<>>
    /\ outOp = "GenerateSQL" /\ cgen.enabled =>
          ((outVal # <<>>) <=> (inArg.col.Type.kind = "BrandedIDType"))

\* GenerateAllSQL has returned the two statements of a table whose first
\* and third columns are branded and whose second is not
C29_Witness ==
    /\ outOp = "GenerateAllSQL"
    /\ inArg.opts = <<>>
    /\ inArg.table = Table(T_TASKS, <<COL_ID_TASK, COL_TITLE, COL_EPIC_ID>>, <<>>)
    /\ Len(outVal) = 2
    /\ outVal[1] = <<"A", "L", "T", "E", "R", " ", "T", "A", "B", "L", "E", " ", "\"", "t", "a", "s", "k", "s", "\"", " ", "A", "D", "D", " ", "C", "O", "N", "S", "T", "R", "A", "I", "N", "T", " ", "\"", "c", "h", "k", "_", "t", "a", "s", "k", "s", "_", "i", "d", "_", "b", "r", "a", "n", "d", "e", "d", "\"", " ", "C", "H", "E", "C", "K", " ", "(", "i", "d", " ", "~", " ", "'", "^", "T", "S", "K", "[", "0", "-", "9", "A", "-", "Z", "a", "-", "z", "]", "{", "1", "1", "}", "$", "'", ")", ";">>

(***************************************************************************)
(* Precedence of the failures of ValidateValue.                            *)
(***************************************************************************)
\* C27: a value whose length is not 14 yields the length error, whatever is
\* expected; a value of 14 characters with a character the format does not
\* admit yields the format error; the namespace error is returned only for
\* values of 14 characters that match the format
C27_ValuePrecedence ==
    outOp = "ValidateValue" =>
        /\ Len(inRaw) # 14 => outRes.err = ValueErrLength(inRaw)
        /\ Len(inRaw) = 14 /\ ~WellFormed(inRaw) => outRes.err = ValueErrFormat(inRaw)
        /\ (outRes.err # NoErr /\ outRes.err.kind = "value namespace") =>
              Len(inRaw) = 14 /\ WellFormed(inRaw)

\* a value of 14 characters with a character outside the alphabet, under a
\* namespace other than the expected one, has been refused for its format
C27_Witness ==
    /\ outOp = "ValidateValue"
    /\ Len(inRaw) = 14
    /\ ~WellFormed(inRaw)
    /\ inExpected # <<>>
    /\ SubSeq(inRaw, 1, 3) # inExpected
    /\ outRes.err = ValueErrFormat(inRaw)

(***************************************************************************)
(* The column pairs ValidateForeignKey looks at.                           *)
(***************************************************************************)
MinLen(a, b) == IF Len(a) <= Len(b) THEN Len(a) ELSE Len(b)

\* the foreign key without the columns that have no counterpart
Paired(fk) ==
    [fk EXCEPT !.Columns = SubSeq(@, 1, MinLen(fk.Columns, fk.RefColumns)),
               !.RefColumns = SubSeq(@, 1, MinLen(fk.Columns, fk.RefColumns))]

\* C30: ValidateForeignKey looks at the positions below
\* min(len(Columns), len(RefColumns)) only: its result is that of the
\* foreign key cut down to these positions, so a branded referencing column
\* without a referenced counterpart produces no error, and there are at
\* most min(len(Columns), len(RefColumns)) errors
C30_OnlyPairedPositions ==
    outOp = "ValidateForeignKey" =>
        LET fk == inArg.fk
        IN  /\ Len(outErrs) <= MinLen(fk.Columns, fk.RefColumns)
            /\ outErrs = ValidateForeignKey(validator, Paired(fk))
            /\ fk.RefColumns = <<>> => outErrs = <<>>

\* a foreign key of two branded referencing columns and one referenced
\* column, the same namespace in the first pair, has got no error
C30_Witness ==
    /\ outOp = "ValidateForeignKey"
    /\ Len(inArg.fk.Columns) = 2
    /\ Len(inArg.fk.RefColumns) = 1
    /\ inArg.fk.Columns[1].Type = BrandedIDFromNamespace(NS_EPIC)
    /\ inArg.fk.Columns[2].Type = BrandedIDFromNamespace(NS_TASK)
    /\ inArg.fk.RefColumns[1].Type = BrandedIDFromNamespace(NS_EPIC)
    /\ outErrs = <<>>

====
